---- MODULE Spec2Model ----
(***************************************************************************)
(* A model of the counter widget's core: StorageManager                    *)
(* (assets/js/storage.js) over a localStorage medium, and Counter          *)
(* (counter.js) with its bounds, history log, listeners and synchronous    *)
(* event emission.  Execution is single-threaded; the only interleaving is *)
(* the one JavaScript itself allows: a listener called by emit() may call  *)
(* back into the counter before it returns.                                *)
(***************************************************************************)
EXTENDS Integers, Sequences, FiniteSets, TLC

VARIABLES
    options,      \* Counter.options
    value,        \* Counter.value
    lastUpdated,  \* Counter.lastUpdated (a reading of the clock)
    history,      \* Counter.history: [on |-> enabled, log |-> entries]
    listeners,    \* Counter.listeners: event name -> callbacks in insertion order
    stack,        \* the emit() calls in progress, innermost last
    medium,       \* localStorage: the two items of the application
    isSupported,  \* StorageManager.isSupported
    mediumMode,   \* how localStorage behaves now: "ok", "quota" or "down"
    now,          \* the clock read by new Date()
    reentrant,    \* whether the listeners of this page call back into the counter
    held,         \* what the page got from the counter and still holds
    kept,         \* the unsubscribe closures the page has stored, oldest first
    app,          \* CounterApp: its fields, its listeners on the buttons, the key being handled
    ret,          \* what the most recent call returned (or that it threw)
    warned        \* whether that call logged an 'Invalid ...' warning

\* The fields of the counter, the storage singleton with its medium, and the rest.
counterVars == <<options, value, lastUpdated, history, listeners>>
storageVars == <<medium, isSupported>>
\* What the page and its surroundings do; the steps of the counter leave it alone.
envVars == <<mediumMode, now, reentrant, held, kept, app>>
vars == <<counterVars, storageVars, stack, envVars, ret, warned>>

-----------------------------------------------------------------------------
(* Bounds of the model *)

\* Bits of the significand of the model's floating-point numbers (53 in JS).
MantissaBits == 2
\* The clock takes the values 0..MaxTime.
MaxTime == 1
\* The largest maxHistoryLength option tried.
MaxHistory == 2
\* How many calls into the counter the listeners make, all together, while
\* one call of the page is notified.
MaxReentrantCalls == 2
\* How many unsubscribe closures the page stores.
MaxKept == 2

-----------------------------------------------------------------------------
(* JavaScript values *)

Num(n) == [t |-> "number", n |-> n]
NaN == [t |-> "NaN", n |-> 0]
PosInf == [t |-> "Infinity", n |-> 0]
NegInf == [t |-> "-Infinity", n |-> 0]
Undefined == [t |-> "undefined", n |-> 0]
Null == [t |-> "null", n |-> 0]
\* A value that is not a number, such as a string.
NonNumber == [t |-> "string", n |-> 0]
Bool(b) == [t |-> IF b THEN "true" ELSE "false", n |-> 0]
Thrown == [t |-> "throw", n |-> 0]
\* The unsubscribe closure on(event, callback) returns; n tells which event
\* and callback it has captured.
Captures == <<<<"change", "f">>, <<"change", "g">>, <<"error", "f">>, <<"error", "g">>>>
Closure(e, c) ==
    [t |-> "function", n |-> CHOOSE i \in 1..Len(Captures) : Captures[i] = <<e, c>>]
\* No result yet: the call is still running.
Pending == [t |-> "pending", n |-> 0]

RECURSIVE Pow2(_)
Pow2(n) == IF n = 0 THEN 1 ELSE 2 * Pow2(n - 1)

Abs(x) == IF x < 0 THEN 0 - x ELSE x
Min(a, b) == IF a < b THEN a ELSE b
Max(a, b) == IF a > b THEN a ELSE b

\* Number.MAX_SAFE_INTEGER: every integer up to it is a number.
MaxSafe == Pow2(MantissaBits) - 1
\* The largest finite number: one binade above the safe integers, where only
\* the even integers are numbers.
MaxFinite == 2 * MaxSafe
IsNumber(x) == Abs(x) <= MaxSafe \/ (Abs(x) <= MaxFinite /\ x % 2 = 0)
Finite == {n \in (0 - MaxFinite)..MaxFinite : IsNumber(n)}

\* The number an exact result x is rounded to: the nearest one, a tie going
\* to the one with the even significand, and Infinity beyond the largest.
RoundNumber(x) ==
    IF IsNumber(x) THEN Num(x)
    ELSE IF x > MaxFinite THEN PosInf
    ELSE IF x < 0 - MaxFinite THEN NegInf
    ELSE IF (x + 1) % 4 = 0 THEN Num(x + 1) ELSE Num(x - 1)

JsAdd(a, b) == RoundNumber(a + b)
JsSub(a, b) == RoundNumber(a - b)

\* The test without its isNaN and isFinite parts.
IsTypeofNumber(v) == v.t \in {"number", "NaN", "Infinity", "-Infinity"}

\* typeof v === 'number' && !isNaN(v) && isFinite(v)
IsFiniteNumber(v) == v.t = "number"

\* What JSON.stringify followed by JSON.parse makes of a number.
JsonNumber(v) == IF v.t = "number" THEN v ELSE Null

\* The arguments tried in calls.
ArgNumbers == {0, 1, 2, MaxFinite}
ArgValues == {Num(n) : n \in ArgNumbers} \cup {NaN, PosInf, NonNumber, Undefined}

Times == 0..MaxTime

-----------------------------------------------------------------------------
(* StorageManager over localStorage *)

prefix == "counter-app-5567-"
COUNTER_VALUE == "counter_value"
COUNTER_HISTORY == "counter_history"
Keys == {COUNTER_VALUE, COUNTER_HISTORY}

getPrefixedKey(key) == prefix \o key

\* What save() is given to store: an object with the fields saveValue()
\* writes, an array of history entries, or anything that is not an object.
ObjectPayload(v, lu) ==
    [t |-> "object", value |-> v, lastUpdated |-> lu, entries |-> <<>>]
ArrayPayload(es) ==
    [t |-> "array", value |-> Null, lastUpdated |-> Null, entries |-> es]
ScalarPayload ==
    [t |-> "scalar", value |-> Null, lastUpdated |-> Null, entries |-> <<>>]
NoPayload ==
    [t |-> "none", value |-> Null, lastUpdated |-> Null, entries |-> <<>>]
\* The scalar v, and an object that refers to itself.
Scalar(v) == [ScalarPayload EXCEPT !.value = v]
Circular ==
    [t |-> "circular", value |-> Null, lastUpdated |-> Null, entries |-> <<>>]

\* A localStorage item: no item, text that JSON.parse rejects, JSON that is
\* not a wrapper object with a 'value' field, or the wrapper save() writes.
Absent == [t |-> "absent", payload |-> NoPayload, timestamp |-> 0]
Garbage == [t |-> "garbage", payload |-> NoPayload, timestamp |-> 0]
NoShape == [t |-> "noshape", payload |-> NoPayload, timestamp |-> 0]
Wrapped(p, ts) == [t |-> "wrapped", payload |-> p, timestamp |-> ts]

\* JSON.stringify of an entry of the history: a diff that is not finite
\* becomes null.
StringifyEntry(e) == [e EXCEPT !.diff = JsonNumber(e.diff)]

\* JSON.stringify of what save() is given.
Stringify(p) ==
    [p EXCEPT !.value = IF p.value.t \in {"NaN", "Infinity", "-Infinity"}
                        THEN Null ELSE p.value,
              !.entries = [i \in 1..Len(p.entries) |-> StringifyEntry(p.entries[i])]]

\* The probe: setItem then removeItem of a test key, in a try block.
checkLocalStorageSupport(mode) == mode = "ok"

\* localStorage.setItem throws when the quota is used up or the medium is down.
SetItemThrows(mode) == mode # "ok"
\* getItem and removeItem throw only when the medium is down.
AccessThrows(mode) == mode = "down"

\* key.startsWith(pre)
startsWith(key, pre) == Len(key) >= Len(pre) /\ SubSeq(key, 1, Len(pre)) = pre

\* The text save() makes of value p at time t, as the item it is once
\* stored: JSON.stringify leaves a 'value' that is undefined out of the
\* wrapper.
Serialized(p, t) ==
    IF p = Scalar(Undefined) THEN NoShape ELSE Wrapped(Stringify(p), t)

\* save() that stores the text of the value alone, without the wrapper.
saveUnwrapped(sup, mode, t, med, key, p) ==
    IF ~sup THEN [ok |-> FALSE, medium |-> med]
    ELSE IF p.t = "circular" \/ SetItemThrows(mode) THEN [ok |-> FALSE, medium |-> med]
    ELSE [ok |-> TRUE, medium |-> [med EXCEPT ![getPrefixedKey(key)] = NoShape]]

\* save(key, value): the record of what it returns and the medium it leaves.
\* JSON.stringify throws on a circular value, and setItem may throw.
save(sup, mode, t, med, key, p) ==
    IF ~sup THEN [ok |-> FALSE, medium |-> med]
    ELSE IF p.t = "circular" \/ SetItemThrows(mode) THEN [ok |-> FALSE, medium |-> med]
    ELSE [ok |-> TRUE,
          medium |-> [med EXCEPT ![getPrefixedKey(key)] = Serialized(p, t)]]

\* load() that takes whatever parses for the value.
loadUnchecked(sup, mode, med, key, d) ==
    IF ~sup THEN d
    ELSE IF AccessThrows(mode) THEN d
    ELSE LET item == med[getPrefixedKey(key)]
         IN  IF item.t \in {"wrapped", "noshape"} THEN item.payload ELSE d

\* load(key, defaultValue): the stored value, or the default d (NoPayload
\* stands for the default null).
load(sup, mode, med, key, d) ==
    IF ~sup THEN d
    ELSE IF AccessThrows(mode) THEN d
    ELSE LET item == med[getPrefixedKey(key)]
         IN  IF item.t = "wrapped" THEN item.payload ELSE d
\* remove() probing the medium again in place of reading isSupported.
removeProbesAgain(sup, mode, med, key) ==
    IF ~checkLocalStorageSupport(mode) THEN [ok |-> FALSE, medium |-> med]
    ELSE [ok |-> TRUE, medium |-> [med EXCEPT ![getPrefixedKey(key)] = Absent]]


\* remove(key)
remove(sup, mode, med, key) ==
    IF ~sup THEN [ok |-> FALSE, medium |-> med]
    ELSE IF AccessThrows(mode) THEN [ok |-> FALSE, medium |-> med]
    ELSE [ok |-> TRUE, medium |-> [med EXCEPT ![getPrefixedKey(key)] = Absent]]

\* clear() that empties the medium.
clearEverything(sup, mode, med) ==
    IF ~sup THEN [ok |-> FALSE, medium |-> med]
    ELSE IF AccessThrows(mode) THEN [ok |-> FALSE, medium |-> med]
    ELSE [ok |-> TRUE, medium |-> [k \in DOMAIN med |-> Absent]]

\* clear(): the keys that start with the prefix are collected, then removed.
clear(sup, mode, med) ==
    IF ~sup THEN [ok |-> FALSE, medium |-> med]
    ELSE IF AccessThrows(mode) THEN [ok |-> FALSE, medium |-> med]
    ELSE [ok |-> TRUE,
          medium |-> [k \in DOMAIN med |->
                         IF startsWith(k, prefix) THEN Absent ELSE med[k]]]

\* The keys of the items the medium holds.
KeysIn(med) == {k \in DOMAIN med : med[k] # Absent}

\* getAllKeys(): the application's keys, without the prefix; none when the
\* loop throws at its first access.
getAllKeys(sup, mode, med) ==
    IF ~sup THEN {}
    ELSE IF AccessThrows(mode) THEN {}
    ELSE {SubSeq(k, Len(prefix) + 1, Len(k)) :
             k \in {j \in KeysIn(med) : startsWith(j, prefix)}}

\* What getStorageInfo() returns, but for estimatedSize (the length of the
\* texts is not modelled).
StorageInfo(supported, totalKeys, appKeys) ==
    [t |-> "info", supported |-> supported, totalKeys |-> totalKeys,
     appKeys |-> appKeys]

\* getStorageInfo(): the loop is in a try block; localStorage.length in the
\* object returned is read outside it.
getStorageInfo(sup, mode, med) ==
    IF ~sup THEN StorageInfo(FALSE, 0, 0)
    ELSE IF AccessThrows(mode) THEN Thrown
    ELSE StorageInfo(TRUE, Cardinality(KeysIn(med)),
                     Cardinality({k \in KeysIn(med) : startsWith(k, prefix)}))

-----------------------------------------------------------------------------
(* Counter: construction *)

Actions == {"init", "increment", "decrement", "reset", "set"}

\* maxHistoryLength when the option is not given.
DefaultMaxHistoryLength == 100

Opts(lo, hi, persist, validate, hist, cap) ==
    [minValue |-> lo, maxValue |-> hi, persistValue |-> persist,
     validateBounds |-> validate, enableHistory |-> hist,
     maxHistoryLength |-> cap]

\* The options tried.  With bounds [0, 2] and validation: persistence and a
\* history of length 1, and neither.  With the default bounds (the safe
\* integers): persistence, no validation and no history.
BoundedOptions ==
    {Opts(0, 2, TRUE, TRUE, TRUE, 1),
     Opts(0, 2, FALSE, TRUE, FALSE, DefaultMaxHistoryLength)}
UnboundedOptions ==
    {Opts(0 - MaxSafe, MaxSafe, TRUE, FALSE, FALSE, DefaultMaxHistoryLength)}
Options == BoundedOptions \cup UnboundedOptions

\* clampValue() without its upper bound.
clampValueMinOnly(o, v) == Max(o.minValue, v)

\* clampValue(value)
clampValue(o, v) == Max(o.minValue, Min(o.maxValue, v))

\* An entry that records the two values the wrong way round.
EntryValuesSwapped(action, oldValue, newValue, t) ==
    [action |-> action, oldValue |-> newValue, newValue |-> oldValue,
     timestamp |-> t, diff |-> JsSub(newValue, oldValue)]

\* An entry whose diff is oldValue - newValue.
EntryDiffReversed(action, oldValue, newValue, t) ==
    [action |-> action, oldValue |-> oldValue, newValue |-> newValue,
     timestamp |-> t, diff |-> JsSub(oldValue, newValue)]

Entry(action, oldValue, newValue, t) ==
    [action |-> action, oldValue |-> oldValue, newValue |-> newValue,
     timestamp |-> t, diff |-> JsSub(newValue, oldValue)]

\* The same with pop() for shift(): the newest entry goes, not the oldest.
PushCappedPop(o, log, e) ==
    LET pushed == Append(log, e)
    IN  IF Len(pushed) > o.maxHistoryLength
        THEN SubSeq(pushed, 1, Len(pushed) - 1) ELSE pushed

\* history.push(entry), then history.shift() when the log is over its cap.
PushCapped(o, log, e) ==
    LET pushed == Append(log, e)
    IN  IF Len(pushed) > o.maxHistoryLength THEN Tail(pushed) ELSE pushed
\* addToHistory() that saves the history before it shifts the oldest entry
\* off: the item holds one entry more than the log of a full history.
addToHistorySavesUncapped(o, sup, mode, t, h, med, action, oldValue, newValue) ==
    IF ~o.enableHistory \/ ~h.on THEN [history |-> h, medium |-> med]
    ELSE LET pushed == Append(h.log, Entry(action, oldValue, newValue, t))
             log == PushCapped(o, h.log, Entry(action, oldValue, newValue, t))
         IN  [history |-> [on |-> TRUE, log |-> log],
              medium |-> IF o.persistValue
                         THEN save(sup, mode, t, med, COUNTER_HISTORY,
                                   ArrayPayload(pushed)).medium
                         ELSE med]

\* addToHistory() that saves the log first and gives up when that fails.
addToHistorySaveFirst(o, sup, mode, t, h, med, action, oldValue, newValue) ==
    IF ~o.enableHistory \/ ~h.on THEN [history |-> h, medium |-> med]
    ELSE LET log == PushCapped(o, h.log, Entry(action, oldValue, newValue, t))
             saved == save(sup, mode, t, med, COUNTER_HISTORY, ArrayPayload(log))
         IN  IF o.persistValue /\ ~saved.ok
             THEN [history |-> h, medium |-> med]
             ELSE [history |-> [on |-> TRUE, log |-> log],
                   medium |-> IF o.persistValue THEN saved.medium ELSE med]

\* addToHistory(action, oldValue, newValue): the history and the medium it leaves.
addToHistory(o, sup, mode, t, h, med, action, oldValue, newValue) ==
    IF ~o.enableHistory \/ ~h.on THEN [history |-> h, medium |-> med]
    ELSE LET log == PushCapped(o, h.log, Entry(action, oldValue, newValue, t))
         IN  [history |-> [on |-> TRUE, log |-> log],
              medium |-> IF o.persistValue
                         THEN save(sup, mode, t, med, COUNTER_HISTORY, ArrayPayload(log)).medium
                         ELSE med]

\* The same with `persistedData.value || this.value`: a stored 0 is not taken.
loadPersistedValueTruthy(sup, mode, med, v, lu) ==
    LET data == load(sup, mode, med, COUNTER_VALUE, NoPayload)
    IN  IF data.t \in {"object", "array"}
        THEN [value |-> IF data.value.t = "number" /\ data.value.n # 0
                        THEN data.value.n ELSE v,
              lastUpdated |-> IF data.lastUpdated.t = "number"
                              THEN data.lastUpdated.n ELSE lu]
        ELSE [value |-> v, lastUpdated |-> lu]

\* loadPersistedValue(): the value and lastUpdated it leaves.
loadPersistedValue(sup, mode, med, v, lu) ==
    LET data == load(sup, mode, med, COUNTER_VALUE, NoPayload)
    IN  IF data.t \in {"object", "array"}
        THEN [value |-> IF data.value.t = "number" THEN data.value.n ELSE v,
              lastUpdated |-> IF data.lastUpdated.t = "number"
                              THEN data.lastUpdated.n ELSE lu]
        ELSE [value |-> v, lastUpdated |-> lu]

\* saveValue() that stores nothing.
saveValueSkipped(o, sup, mode, t, med, v, lu) == med

\* saveValue(): the medium it leaves.
saveValue(o, sup, mode, t, med, v, lu) ==
    IF ~o.persistValue THEN med
    ELSE save(sup, mode, t, med, COUNTER_VALUE, ObjectPayload(Num(v), Num(lu))).medium

\* A constructor whose 'init' entry has the initial value as its oldValue.
ConstructedFromInitial(iv, o, sup, mode, t, med) ==
    LET loaded == IF o.persistValue
                  THEN loadPersistedValue(sup, mode, med, iv, t)
                  ELSE [value |-> iv, lastUpdated |-> t]
        v == IF o.validateBounds THEN clampValue(o, loaded.value) ELSE loaded.value
        h == addToHistory(o, sup, mode, t, [on |-> o.enableHistory, log |-> <<>>],
                          med, "init", iv, v)
    IN  [value |-> v, lastUpdated |-> loaded.lastUpdated,
         history |-> h.history, medium |-> h.medium]

\* new Counter(initialValue, options): the fields of the instance and the
\* medium it leaves.
Constructed(iv, o, sup, mode, t, med) ==
    LET loaded == IF o.persistValue
                  THEN loadPersistedValue(sup, mode, med, iv, t)
                  ELSE [value |-> iv, lastUpdated |-> t]
        v == IF o.validateBounds THEN clampValue(o, loaded.value) ELSE loaded.value
        h == addToHistory(o, sup, mode, t, [on |-> o.enableHistory, log |-> <<>>],
                          med, "init", v, v)
    IN  [value |-> v, lastUpdated |-> loaded.lastUpdated,
         history |-> h.history, medium |-> h.medium]

Events == {"change", "error"}
Callbacks == {"f", "g"}
\* The subscriptions tried: two listeners of 'change'.
Subscriptions == {<<"change", "f">>, <<"change", "g">>}
NotAFunction == "not a function"
NoListeners == [e \in Events |-> <<>>]

MediumModes == {"ok", "quota", "down"}
MediumKeys == {getPrefixedKey(k) : k \in Keys}

\* What the value item may hold before the application first runs: nothing,
\* or something another version or another program left there.
ForeignValueItems ==
    {Absent, Garbage, NoShape, Wrapped(ScalarPayload, 0),
     Wrapped(ObjectPayload(NonNumber, Num(0)), 0),
     Wrapped(ObjectPayload(Num(MaxSafe), Undefined), 0)}

\* The initial values tried: below, inside and above the bounds.
InitialValues == {0 - MaxFinite, 0, 1, MaxFinite}

\* The page holds nothing it got from the counter.
NotHeld == [t |-> "none", entries |-> <<>>]

\* No key is being handled.
NoKey ==
    [target |-> "none", pressed |-> "none", pending |-> 0, clicking |-> FALSE,
     calls |-> 0]

\* A page without the application: no CounterApp has bound anything.
NoApp == [isInitialized |-> FALSE, click |-> FALSE, keydown |-> 0, key |-> NoKey]

\* The instance `new Counter(iv, options)` makes, on medium med.
Install(iv, sup, mode, t, med) ==
    LET c == Constructed(iv, options, sup, mode, t, med)
    IN  /\ options' = options
        /\ value' = c.value
        /\ lastUpdated' = c.lastUpdated
        /\ history' = c.history
        /\ medium' = c.medium
        /\ listeners' = NoListeners
        /\ stack' = <<>>
        /\ ret' = Undefined
        /\ warned' = FALSE

\* The page has been loaded on a medium in some mode, holding some item.
Loaded(modes, items, opts, re) ==
    \E mode \in modes, item \in items, iv \in InitialValues, o \in opts :
        LET med == [k \in MediumKeys |->
                        IF k = getPrefixedKey(COUNTER_VALUE) THEN item ELSE Absent]
            sup == checkLocalStorageSupport(mode)
            c == Constructed(iv, o, sup, mode, 0, med)
        IN  /\ mediumMode = mode
            /\ isSupported = sup
            /\ now = 0
            /\ options = o
            /\ value = c.value
            /\ lastUpdated = c.lastUpdated
            /\ history = c.history
            /\ medium = c.medium
            /\ listeners = NoListeners
            /\ stack = <<>>
            /\ ret = Undefined
            /\ warned = FALSE
            /\ reentrant = re
            /\ held = NotHeld
            /\ kept = <<>>
            /\ app = NoApp

\* The page is loaded on a working medium; its listeners only observe.
Init == Loaded({"ok"}, ForeignValueItems, Options, FALSE)

-----------------------------------------------------------------------------
(* The environment *)

\* Time passes between calls (a call and the notification it makes are
\* taken to run within one reading of the clock).
Tick ==
    /\ stack = <<>>
    /\ now < MaxTime
    /\ now' = now + 1
    /\ UNCHANGED <<counterVars, storageVars, stack, mediumMode, reentrant, app, held, kept, ret, warned>>

\* localStorage starts or stops throwing.
MediumChange(mode) ==
    /\ mode # mediumMode
    /\ mediumMode' = mode
    /\ UNCHANGED <<counterVars, storageVars, stack, now, reentrant, app, held, kept, ret, warned>>

\* The page constructs another counter in place of this one, with the same
\* options (as resetApp does through init).
NewCounter(iv) ==
    /\ stack = <<>>
    /\ Install(iv, isSupported, mediumMode, now, medium)
    /\ UNCHANGED <<isSupported, envVars>>

\* The page is loaded again: the storage singleton is constructed, probing
\* localStorage, and then the counter.
PageLoad(iv) ==
    /\ stack = <<>>
    /\ isSupported' = checkLocalStorageSupport(mediumMode)
    /\ Install(iv, isSupported', mediumMode, now, medium)
    /\ UNCHANGED envVars

-----------------------------------------------------------------------------
(* Counter: emit() in progress *)

\* The ChangeEvent updateValue() hands to emit().
ChangeEvent(v, oldValue, action, t) ==
    [value |-> v, oldValue |-> oldValue, action |-> action, timestamp |-> t,
     diff |-> JsSub(v, oldValue)]

NoCallback == "none"

\* A call of emit('change', data) in progress is a record.  rest holds the
\* callbacks forEach has yet to visit; live says that the Set it iterates is
\* still the one the listeners Map holds; cur is the callback now running
\* and acted says that it has called into the counter.  The other fields
\* record what happened in this notification: the callbacks registered when
\* it began, those invoked so far in order, whether one of them threw,
\* whether no callback of 'change' has been unsubscribed since it began, and
\* whether the counter's state is still what the notified mutation left.
\* calls counts, in the outermost notification, the calls the listeners
\* have made since it began.

\* An emit() that stops after the first callback.
FrameFirstOnly(data, subs) ==
    [data |-> data, rest |-> IF subs = <<>> THEN subs ELSE <<Head(subs)>>,
     live |-> subs # <<>>, cur |-> NoCallback,
     acted |-> FALSE, calls |-> 0, registered |-> subs, done |-> <<>>,
     threw |-> FALSE, stable |-> TRUE, clean |-> TRUE]

\* emit('change', data) as it starts, over the callbacks subs.
Frame(data, subs) ==
    [data |-> data, rest |-> subs, live |-> subs # <<>>, cur |-> NoCallback,
     acted |-> FALSE, calls |-> 0, registered |-> subs, done |-> <<>>,
     threw |-> FALSE, stable |-> TRUE, clean |-> TRUE]

Top == stack[Len(stack)]

\* A call into the counter can be made by the page when nothing is running,
\* and by the listener that is running, if the listeners are such.
MayCall ==
    \/ stack = <<>>
    \/ /\ stack # <<>>
       /\ reentrant
       /\ Top.cur # NoCallback
       /\ stack[1].calls < MaxReentrantCalls

\* The stack once the running listener, if any, has made one more call.
Called(stk) ==
    IF stk = <<>> THEN stk
    ELSE [i \in 1..Len(stk) |->
             [stk[i] EXCEPT !.acted = @ \/ i = Len(stk),
                            !.calls = IF i = 1 THEN @ + 1 ELSE @]]

Without(seq, c) == SelectSeq(seq, LAMBDA x : x # c)
Contains(seq, c) == \E i \in 1..Len(seq) : seq[i] = c

\* The frames once the counter's state has changed under them.
Dirtied(stk) == [i \in 1..Len(stk) |-> [stk[i] EXCEPT !.clean = FALSE]]

\* The frames once callback c has been added to the Set of 'change'
\* (isNewSet: the Map held no Set, so that on() made a new one).
AfterAdd(stk, c, isNewSet) ==
    [i \in 1..Len(stk) |->
        [stk[i] EXCEPT !.rest = IF stk[i].live /\ ~isNewSet THEN Append(@, c) ELSE @]]

\* The frames once callback c has been deleted from the Set of 'change'
\* (emptied: the Set became empty and was taken out of the Map).
AfterDelete(stk, c, emptied) ==
    [i \in 1..Len(stk) |->
        [stk[i] EXCEPT !.rest = IF stk[i].live THEN Without(@, c) ELSE @,
                       !.live = @ /\ ~emptied,
                       !.stable = FALSE]]

\* The frames once listeners.clear() has emptied the Map: each forEach goes
\* on over its own Set.
AfterClear(stk) ==
    [i \in 1..Len(stk) |-> [stk[i] EXCEPT !.live = FALSE, !.clean = FALSE]]

-----------------------------------------------------------------------------
(* Counter: the operations *)

\* The clamping done whatever validateBounds says.
TargetClampAlways(newValue) == clampValue(options, newValue.n)

\* No clamping at all.
TargetUnclamped(newValue) == newValue.n

\* The value updateValue(newValue) would set: newValue, clamped when bounds
\* are validated.
Target(newValue) ==
    IF options.validateBounds THEN clampValue(options, newValue.n) ELSE newValue.n

\* updateValue() without the early return for an unchanged value.
updateValueAlways(newValue, action) ==
    IF ~IsFiniteNumber(newValue)
    THEN /\ ret' = Num(value)
         /\ warned' = TRUE
         /\ stack' = Called(stack)
         /\ UNCHANGED <<counterVars, storageVars>>
    ELSE LET v == Target(newValue)
             h == addToHistory(options, isSupported, mediumMode, now, history,
                               medium, action, value, v)
         IN  /\ value' = v
             /\ lastUpdated' = now
             /\ history' = h.history
             /\ medium' = saveValue(options, isSupported, mediumMode, now,
                                    h.medium, v, now)
             /\ stack' = Append(Dirtied(Called(stack)),
                                Frame(ChangeEvent(v, value, action, now),
                                      listeners["change"]))
             /\ ret' = Pending
             /\ warned' = FALSE
             /\ UNCHANGED <<options, listeners, isSupported>>

\* updateValue() that calls emit() before saveValue(): the value item is
\* not written yet when the callbacks run.
updateValueEmitsBeforeSave(newValue, action) ==
    IF ~IsFiniteNumber(newValue)
    THEN /\ ret' = Num(value)
         /\ warned' = TRUE
         /\ stack' = Called(stack)
         /\ UNCHANGED <<counterVars, storageVars>>
    ELSE IF Target(newValue) = value
    THEN /\ ret' = Num(value)
         /\ warned' = FALSE
         /\ stack' = Called(stack)
         /\ UNCHANGED <<counterVars, storageVars>>
    ELSE LET v == Target(newValue)
             h == addToHistory(options, isSupported, mediumMode, now, history,
                               medium, action, value, v)
         IN  /\ value' = v
             /\ lastUpdated' = now
             /\ history' = h.history
             /\ medium' = h.medium
             /\ stack' = Append(Dirtied(Called(stack)),
                                Frame(ChangeEvent(v, value, action, now),
                                      listeners["change"]))
             /\ ret' = Pending
             /\ warned' = FALSE
             /\ UNCHANGED <<options, listeners, isSupported>>

\* updateValue(newValue, action)
updateValue(newValue, action) ==
    IF ~IsFiniteNumber(newValue)
    THEN \* rejected, with a warning
         /\ ret' = Num(value)
         /\ warned' = TRUE
         /\ stack' = Called(stack)
         /\ UNCHANGED <<counterVars, storageVars>>
    ELSE IF Target(newValue) = value
    THEN \* the value does not change
         /\ ret' = Num(value)
         /\ warned' = FALSE
         /\ stack' = Called(stack)
         /\ UNCHANGED <<counterVars, storageVars>>
    ELSE LET v == Target(newValue)
             h == addToHistory(options, isSupported, mediumMode, now, history,
                               medium, action, value, v)
         IN  /\ value' = v
             /\ lastUpdated' = now
             /\ history' = h.history
             /\ medium' = saveValue(options, isSupported, mediumMode, now,
                                    h.medium, v, now)
             /\ stack' = Append(Dirtied(Called(stack)),
                                Frame(ChangeEvent(v, value, action, now),
                                      listeners["change"]))
             /\ ret' = Pending
             /\ warned' = FALSE
             /\ UNCHANGED <<options, listeners, isSupported>>

DefaultAmount == 1
DefaultReset == 0

\* A parameter with a default takes it when the argument is undefined.
OrDefault(a, d) == IF a = Undefined THEN Num(d) ELSE a

\* A mutator can be called when a call can be made.
MayMutate == MayCall

increment(a) ==
    /\ MayMutate
    /\ UNCHANGED envVars
    /\ LET amount == OrDefault(a, DefaultAmount)
       IN  IF ~IsFiniteNumber(amount)
           THEN /\ ret' = Num(value)
                /\ warned' = TRUE
                /\ stack' = Called(stack)
                /\ UNCHANGED <<counterVars, storageVars>>
           ELSE updateValue(JsAdd(value, amount.n), "increment")

\* decrement() adding the amount as increment() does.
decrementAdds(a) ==
    /\ MayMutate
    /\ UNCHANGED envVars
    /\ LET amount == OrDefault(a, DefaultAmount)
       IN  IF ~IsFiniteNumber(amount)
           THEN /\ ret' = Num(value)
                /\ warned' = TRUE
                /\ stack' = Called(stack)
                /\ UNCHANGED <<counterVars, storageVars>>
           ELSE updateValue(JsAdd(value, amount.n), "decrement")

decrement(a) ==
    /\ MayMutate
    /\ UNCHANGED envVars
    /\ LET amount == OrDefault(a, DefaultAmount)
       IN  IF ~IsFiniteNumber(amount)
           THEN /\ ret' = Num(value)
                /\ warned' = TRUE
                /\ stack' = Called(stack)
                /\ UNCHANGED <<counterVars, storageVars>>
           ELSE updateValue(JsSub(value, amount.n), "decrement")

reset(a) ==
    /\ MayMutate
    /\ UNCHANGED envVars
    /\ updateValue(OrDefault(a, DefaultReset), "reset")

setValue(a) ==
    /\ MayMutate
    /\ UNCHANGED envVars
    /\ updateValue(a, "set")

getValue == value

\* on() over an array of callbacks in place of a Set: a callback added again
\* is there twice.
onAppendAlways(e, c) ==
    /\ MayCall
    /\ UNCHANGED <<options, value, lastUpdated, history, storageVars, envVars>>
    /\ warned' = FALSE
    /\ IF c = NotAFunction
       THEN /\ ret' = Thrown
            /\ stack' = Called(stack)
            /\ UNCHANGED listeners
       ELSE /\ ret' = Closure(e, c)
            /\ listeners' = [listeners EXCEPT ![e] = Append(@, c)]
            /\ stack' = IF e = "change"
                        THEN AfterAdd(Called(stack), c, listeners[e] = <<>>)
                        ELSE Called(stack)

\* on() adding the callback before it looks at its type.
onAddsBeforeTypeCheck(e, c) ==
    /\ MayCall
    /\ UNCHANGED <<options, value, lastUpdated, history, storageVars, envVars>>
    /\ warned' = FALSE
    /\ ret' = IF c = NotAFunction THEN Thrown ELSE Closure(e, c)
    /\ listeners' = IF Contains(listeners[e], c) THEN listeners
                    ELSE [listeners EXCEPT ![e] = Append(@, c)]
    /\ stack' = IF e = "change" /\ ~Contains(listeners[e], c)
                THEN AfterAdd(Called(stack), c, listeners[e] = <<>>)
                ELSE Called(stack)

\* on(event, callback)
on(e, c) ==
    /\ MayCall
    /\ UNCHANGED <<options, value, lastUpdated, history, storageVars, envVars>>
    /\ warned' = FALSE
    /\ IF c = NotAFunction
       THEN /\ ret' = Thrown
            /\ stack' = Called(stack)
            /\ UNCHANGED listeners
       ELSE /\ ret' = Closure(e, c)
            /\ listeners' = IF Contains(listeners[e], c) THEN listeners
                            ELSE [listeners EXCEPT ![e] = Append(@, c)]
            /\ stack' = IF e = "change" /\ ~Contains(listeners[e], c)
                        THEN AfterAdd(Called(stack), c, listeners[e] = <<>>)
                        ELSE Called(stack)

\* off(event, callback)
off(e, c) ==
    /\ MayCall
    /\ UNCHANGED <<options, value, lastUpdated, history, storageVars, envVars>>
    /\ ret' = Undefined
    /\ warned' = FALSE
    /\ listeners' = [listeners EXCEPT ![e] = Without(@, c)]
    /\ stack' = IF e = "change" /\ Contains(listeners[e], c)
                THEN AfterDelete(Called(stack), c, listeners'[e] = <<>>)
                ELSE Called(stack)

\* A closure stored by the page: the event and the callback it captured, and
\* whether the page has called it.
Stored(cl) ==
    [event |-> Captures[cl.n][1], callback |-> Captures[cl.n][2], called |-> FALSE]

\* The page assigns the closure the call has just returned to a variable of
\* its own, which ends the statement.
KeepClosure ==
    /\ stack = <<>>
    /\ ret.t = "function"
    /\ Len(kept) < MaxKept
    /\ kept' = Append(kept, Stored(ret))
    /\ ret' = Undefined
    /\ UNCHANGED <<counterVars, storageVars, stack, mediumMode, now, reentrant, app,
                   held, warned>>

\* A closure that deletes the whole Set of its event.
CallKeptAll(i) ==
    /\ MayCall
    /\ i \in 1..Len(kept)
    /\ LET e == kept[i].event
           c == kept[i].callback
       IN  /\ listeners' = [listeners EXCEPT ![e] = <<>>]
           /\ stack' = IF e = "change" /\ Contains(listeners[e], c)
                       THEN AfterDelete(Called(stack), c, listeners'[e] = <<>>)
                       ELSE Called(stack)
    /\ kept' = [kept EXCEPT ![i].called = TRUE]
    /\ ret' = Undefined
    /\ warned' = FALSE
    /\ UNCHANGED <<options, value, lastUpdated, history, storageVars, mediumMode,
                   now, reentrant, app, held>>

\* The page calls the i-th closure it stored: the arrow function on()
\* returned, over the event and the callback of that call of on().
CallKept(i) ==
    /\ MayCall
    /\ i \in 1..Len(kept)
    /\ LET e == kept[i].event
           c == kept[i].callback
       IN  /\ listeners' = [listeners EXCEPT ![e] = Without(@, c)]
           /\ stack' = IF e = "change" /\ Contains(listeners[e], c)
                       THEN AfterDelete(Called(stack), c, listeners'[e] = <<>>)
                       ELSE Called(stack)
    /\ kept' = [kept EXCEPT ![i].called = TRUE]
    /\ ret' = Undefined
    /\ warned' = FALSE
    /\ UNCHANGED <<options, value, lastUpdated, history, storageVars, mediumMode,
                   now, reentrant, app, held>>

\* getHistory(): a copy of the log, or null.
NullHistory == [isNull |-> TRUE, entries |-> <<>>]
getHistory ==
    IF history.on THEN [isNull |-> FALSE, entries |-> history.log] ELSE NullHistory

\* clearHistory()
\* clearHistory() removing the value item as well as the history item.
clearHistoryBothItems ==
    /\ MayCall
    /\ UNCHANGED <<options, value, lastUpdated, listeners, isSupported, envVars>>
    /\ warned' = FALSE
    /\ IF ~history.on
       THEN /\ ret' = Bool(FALSE)
            /\ stack' = Called(stack)
            /\ UNCHANGED <<history, medium>>
       ELSE /\ ret' = Bool(TRUE)
            /\ history' = [history EXCEPT !.log = <<>>]
            /\ medium' = IF options.persistValue
                         THEN remove(isSupported, mediumMode,
                                     remove(isSupported, mediumMode, medium,
                                            COUNTER_VALUE).medium,
                                     COUNTER_HISTORY).medium
                         ELSE medium
            /\ stack' = Dirtied(Called(stack))

clearHistory ==
    /\ MayCall
    /\ UNCHANGED <<options, value, lastUpdated, listeners, isSupported, envVars>>
    /\ warned' = FALSE
    /\ IF ~history.on
       THEN /\ ret' = Bool(FALSE)
            /\ stack' = Called(stack)
            /\ UNCHANGED <<history, medium>>
       ELSE /\ ret' = Bool(TRUE)
            /\ history' = [history EXCEPT !.log = <<>>]
            /\ medium' = IF options.persistValue
                         THEN remove(isSupported, mediumMode, medium, COUNTER_HISTORY).medium
                         ELSE medium
            /\ stack' = Dirtied(Called(stack))

CountOf(log, action) == Cardinality({i \in 1..Len(log) : log[i].action = action})

\* getStats()
getStats ==
    [currentValue |-> value, lastUpdated |-> lastUpdated,
     minValue |-> options.minValue, maxValue |-> options.maxValue,
     historyEnabled |-> options.enableHistory,
     persistenceEnabled |-> options.persistValue,
     hasCounts |-> history.on,
     totalActions |-> IF history.on THEN Len(history.log) ELSE 0,
     increments |-> IF history.on THEN CountOf(history.log, "increment") ELSE 0,
     decrements |-> IF history.on THEN CountOf(history.log, "decrement") ELSE 0,
     resets |-> IF history.on THEN CountOf(history.log, "reset") ELSE 0]

\* destroy() that forgets the history key.
destroyValueOnly ==
    /\ MayCall
    /\ UNCHANGED <<options, value, lastUpdated, isSupported, envVars>>
    /\ ret' = Undefined
    /\ warned' = FALSE
    /\ listeners' = NoListeners
    /\ history' = [history EXCEPT !.log = <<>>]
    /\ medium' = IF options.persistValue
                 THEN remove(isSupported, mediumMode, medium, COUNTER_VALUE).medium
                 ELSE medium
    /\ stack' = AfterClear(Called(stack))

\* destroy()
destroy ==
    /\ MayCall
    /\ UNCHANGED <<options, value, lastUpdated, isSupported, envVars>>
    /\ ret' = Undefined
    /\ warned' = FALSE
    /\ listeners' = NoListeners
    /\ history' = [history EXCEPT !.log = <<>>]
    /\ medium' = IF options.persistValue
                 THEN remove(isSupported, mediumMode,
                             remove(isSupported, mediumMode, medium, COUNTER_VALUE).medium,
                             COUNTER_HISTORY).medium
                 ELSE medium
    /\ stack' = AfterClear(Called(stack))

\* emit(): forEach calls the next callback of the Set.
InvokeNext ==
    /\ stack # <<>>
    /\ Top.cur = NoCallback
    /\ Top.rest # <<>>
    /\ LET c == Head(Top.rest)
       IN  stack' = [stack EXCEPT ![Len(stack)] =
                        [@ EXCEPT !.cur = c, !.rest = Tail(@), !.acted = FALSE,
                                  !.done = Append(@, c)]]
    /\ UNCHANGED <<counterVars, storageVars, envVars, ret, warned>>

\* The running callback returns.
CallbackReturn ==
    /\ stack # <<>>
    /\ Top.cur # NoCallback
    /\ stack' = [stack EXCEPT ![Len(stack)].cur = NoCallback]
    /\ UNCHANGED <<counterVars, storageVars, envVars, ret, warned>>

\* A thrown error that emit() does not catch: forEach is abandoned.
CallbackThrowUncaught ==
    /\ stack # <<>>
    /\ Top.cur # NoCallback
    /\ stack' = [stack EXCEPT ![Len(stack)] =
                    [@ EXCEPT !.cur = NoCallback, !.threw = TRUE, !.rest = <<>>]]
    /\ UNCHANGED <<counterVars, storageVars, envVars, ret, warned>>

\* The running callback throws; emit() catches and logs the error.
CallbackThrow ==
    /\ stack # <<>>
    /\ Top.cur # NoCallback
    /\ stack' = [stack EXCEPT ![Len(stack)] = [@ EXCEPT !.cur = NoCallback, !.threw = TRUE]]
    /\ UNCHANGED <<counterVars, storageVars, envVars, ret, warned>>

\* forEach is through: emit() returns, and updateValue() returns this.value.
EmitDone ==
    /\ stack # <<>>
    /\ Top.cur = NoCallback
    /\ Top.rest = <<>>
    /\ stack' = SubSeq(stack, 1, Len(stack) - 1)
    /\ ret' = Num(value)
    /\ warned' = FALSE
    /\ UNCHANGED <<counterVars, storageVars, envVars>>

Next ==
    \/ Tick
    \/ \E iv \in InitialValues : PageLoad(iv)
    \/ \E a \in ArgValues : increment(a)
    \/ \E a \in ArgValues : decrement(a)
    \/ \E a \in ArgValues : reset(a)
    \/ \E a \in ArgValues : setValue(a)
    \/ \E sub \in Subscriptions : on(sub[1], sub[2])
    \/ \E e \in Events : on(e, NotAFunction)
    \/ \E sub \in Subscriptions : off(sub[1], sub[2])
    \/ clearHistory
    \/ destroy
    \/ InvokeNext
    \/ CallbackReturn
    \/ CallbackThrow
    \/ EmitDone

Spec == Init /\ [][Next]_vars

-----------------------------------------------------------------------------
(* Properties of Spec: a working medium, listeners that only observe *)

ValueItem == medium[getPrefixedKey(COUNTER_VALUE)]
HistoryItem == medium[getPrefixedKey(COUNTER_HISTORY)]

\* C1: with validateBounds on, minValue <= value <= maxValue in every state
\* reachable from construction, also when the starting value came from the
\* store.
C1_ValueWithinBounds ==
    options.validateBounds =>
        options.minValue <= getValue /\ getValue <= options.maxValue

\* The counter has been constructed over a stored value above maxValue.
C1_LoadedValueClamped ==
    /\ options.validateBounds
    /\ options.persistValue
    /\ ValueItem.t = "wrapped"
    /\ ValueItem.payload.value = Num(MaxSafe)
    /\ options.maxValue < MaxSafe
    /\ value = options.maxValue
    /\ ret = Undefined

\* The value a call asks for is finite and, once clamped, the current one.
IsNoOp(newValue) == newValue.t = "number" /\ Target(newValue) = value

\* C2: a mutation whose target, after clamping, is the current value returns
\* the current value and changes neither value, lastUpdated, history nor the
\* two persisted records, and starts no notification.
C2_NoOpChangesNothing ==
    [][MayMutate =>
       \A a \in ArgValues :
          LET amount == OrDefault(a, DefaultAmount)
          IN  (\/ IsNoOp(a) /\ setValue(a)
               \/ IsNoOp(OrDefault(a, DefaultReset)) /\ reset(a)
               \/ /\ amount.t = "number"
                  /\ \/ IsNoOp(JsAdd(value, amount.n)) /\ increment(a)
                     \/ IsNoOp(JsSub(value, amount.n)) /\ decrement(a))
              => /\ ret' = Num(value)
                 /\ UNCHANGED <<value, lastUpdated, history, medium, listeners>>
                 /\ stack' = stack]_vars

\* A mutator has returned without a warning, later than the construction,
\* with subscribers, and the log still holds the 'init' entry alone: the
\* call was a no-op.
C2_NoOpReturned ==
    /\ ret = Num(value)
    /\ ~warned
    /\ stack = <<>>
    /\ history.on
    /\ history.log = <<Entry("init", value, value, 0)>>
    /\ lastUpdated < now
    /\ listeners["change"] # <<>>

\* The arguments that are given and are not finite numbers.
NonFiniteArgs == {a \in ArgValues : a.t \notin {"number", "undefined"}}

\* C3: setValue or reset with an argument that is not a finite number, and
\* increment or decrement with an amount that is not one, return the current
\* value, log a warning, change neither value, lastUpdated, history nor the
\* persisted records, and start no notification.
C3_NonFiniteRejected ==
    [][MayMutate =>
       \A a \in NonFiniteArgs \cup {Undefined} :
          (\/ setValue(a)
           \/ a # Undefined /\ (reset(a) \/ increment(a) \/ decrement(a)))
          => /\ ret' = Num(value)
             /\ warned'
             /\ UNCHANGED <<value, lastUpdated, history, medium, listeners>>
             /\ stack' = stack]_vars

\* A call has been rejected with a warning, on a counter with subscribers
\* whose value is not the one of the defaults and was last set earlier.
C3_RejectedReturned ==
    /\ warned
    /\ ret = Num(value)
    /\ value # DefaultReset
    /\ lastUpdated < now
    /\ listeners["change"] # <<>>

\* How often callback c occurs in a sequence of callbacks.
CountIn(seq, c) == Cardinality({i \in 1..Len(seq) : seq[i] = c})

\* The newest entry of a log.
Last(log) == log[Len(log)]

\* The store holds the record saveValue() writes, for a value within the bounds.
WellFormedRecord ==
    /\ ValueItem.t = "wrapped"
    /\ ValueItem.payload.t = "object"
    /\ ValueItem.payload.value.t = "number"
    /\ options.validateBounds =>
           /\ options.minValue <= ValueItem.payload.value.n
           /\ ValueItem.payload.value.n <= options.maxValue

\* C7: over a working medium that holds the value v a prior instance
\* persisted, a counter constructed with persistValue has the value v,
\* whatever initial value the constructor is given.
C7_PersistedValueRestored ==
    [][stack = <<>> /\ options.persistValue /\ WellFormedRecord
            /\ mediumMode = "ok" =>
       \A iv \in InitialValues :
          PageLoad(iv) => getValue' = ValueItem.payload.value.n]_vars

\* A counter has just been constructed, at a later time than the record in
\* the store was written, and has the record's value and lastUpdated.
C7_RestoredAtLoad ==
    /\ options.persistValue
    /\ ret = Undefined
    /\ history.on
    /\ history.log = <<Entry("init", value, value, now)>>
    /\ lastUpdated < now
    /\ ValueItem = Wrapped(ObjectPayload(Num(value), Num(lastUpdated)), lastUpdated)
    /\ value \notin InitialValues

\* C9: a notification invokes the registered callbacks of 'change' in
\* registration order, all of them also when one throws, and the mutator
\* then returns the new value.
C9_AllCallbacksInOrder ==
    /\ [](stack # <<>> =>
            /\ Top.registered = listeners["change"]
            /\ Top.done \o Top.rest = Top.registered)
    /\ [][EmitDone =>
            /\ Top.done = listeners["change"]
            /\ ret' = Num(Top.data.value)
            /\ getValue' = Top.data.value]_vars

\* The second callback registered is running after the first one threw.
C9_RunsAfterThrow ==
    /\ stack # <<>>
    /\ Top.threw
    /\ Top.registered = <<"g", "f">>
    /\ Top.done = <<"g", "f">>
    /\ Top.cur = "f"

\* C19: setValue(v) with a finite v within [minValue, maxValue], or with any
\* finite v when validateBounds is off, makes getValue() v, and v is the
\* value still, and the one returned, when setValue() returns.
C19_SetThenGet ==
    /\ [][MayMutate =>
            \A a \in ArgValues :
                /\ a.t = "number"
                /\ \/ ~options.validateBounds
                   \/ options.minValue <= a.n /\ a.n <= options.maxValue
                /\ setValue(a)
                => getValue' = a.n]_vars
    /\ [][EmitDone /\ Top.data.action = "set" =>
            getValue' = Top.data.value /\ ret' = Num(Top.data.value)]_vars

\* The subscribers are being notified of a setValue() that set a value above
\* maxValue, validateBounds being off.
C19_SetBeyondBounds ==
    /\ stack # <<>>
    /\ Top.data.action = "set"
    /\ ~options.validateBounds
    /\ Top.data.value > options.maxValue
    /\ getValue = Top.data.value

-----------------------------------------------------------------------------
(* Listeners that call back into the counter *)

\* The options tried with such listeners: bounds [0, 2] and a history of
\* length 1.
ReentrantOptions == {Opts(0, 2, FALSE, TRUE, TRUE, 1)}

\* The arguments of setValue() the page and its listeners call it with.
ReentrantArgs == {Num(1), Num(2)}

InitReentrant == Loaded({"ok"}, {Absent}, ReentrantOptions, TRUE)

NextReentrant ==
    \/ increment(Undefined)
    \/ \E a \in ReentrantArgs : setValue(a)
    \/ \E sub \in Subscriptions : on(sub[1], sub[2])
    \/ \E sub \in Subscriptions : off(sub[1], sub[2])
    \/ clearHistory
    \/ destroy
    \/ InvokeNext
    \/ CallbackReturn
    \/ CallbackThrow
    \/ EmitDone

SpecReentrant == InitReentrant /\ [][NextReentrant]_vars

\* The notification that is through: emit() is about to return.
Finished(fr) == fr.rest = <<>> /\ fr.cur = NoCallback

\* C4 as amended: a step starts a notification only by changing the value,
\* and a step that changes the value starts exactly one, for the callbacks
\* then registered; in a notification during which no callback of 'change'
\* is unsubscribed, each of these callbacks is invoked exactly once.
C4_OneNotificationPerMutation ==
    /\ [][Len(stack') > Len(stack) \/ value' # value =>
            /\ value' # value
            /\ Len(stack') = Len(stack) + 1
            /\ Top'.data.value = value'
            /\ Top'.registered = listeners["change"]
            /\ Top'.rest = listeners["change"]
            /\ Top'.done = <<>>]_vars
    /\ [](\A i \in 1..Len(stack) :
            stack[i].stable =>
                \A c \in Callbacks :
                    Contains(stack[i].registered, c) =>
                        CountIn(stack[i].done, c) =
                            IF Contains(stack[i].rest, c) THEN 0 ELSE 1)

\* A notification started by a listener's own mutation is through, with no
\* unsubscription, and has invoked both callbacks.
C4_NestedNotificationThrough ==
    /\ Len(stack) = 2
    /\ Top.stable
    /\ Finished(Top)
    /\ Top.registered = <<"f", "g">>
    /\ Top.done = <<"f", "g">>

\* C4 as stated: in every notification that is through, each callback that
\* was registered for 'change' when it began has been invoked exactly once.
C4_EveryCallbackOnce ==
    \A i \in 1..Len(stack) :
        Finished(stack[i]) =>
            \A c \in Callbacks :
                Contains(stack[i].registered, c) => CountIn(stack[i].done, c) = 1

\* C5: when a 'change' callback starts to run, getValue() is the value of
\* its event, and getHistory() and getStats() include the event's mutation,
\* whatever the callbacks before it did.
C5_CallbackSeesItsEvent ==
    stack # <<>> /\ Top.cur # NoCallback /\ ~Top.acted =>
        /\ getValue = Top.data.value
        /\ getStats.currentValue = Top.data.value
        /\ ~getHistory.isNull =>
               /\ getHistory.entries # <<>>
               /\ Last(getHistory.entries).newValue = Top.data.value
               /\ Last(getHistory.entries).oldValue = Top.data.oldValue
               /\ Last(getHistory.entries).action = Top.data.action
               /\ getStats.totalActions >= 1

-----------------------------------------------------------------------------
(* Longer histories *)

\* The options tried: bounds [0, 2], persistence and a history of each
\* length up to MaxHistory.
HistoryOptions == {Opts(0, 2, TRUE, TRUE, TRUE, cap) : cap \in 1..MaxHistory}

InitHistory == Loaded({"ok"}, {Absent}, HistoryOptions, FALSE)

\* The page calls the counter as its buttons do and subscribes nothing.
NextHistory ==
    \/ Tick
    \/ PageLoad(DefaultReset)
    \/ increment(Undefined)
    \/ decrement(Undefined)
    \/ reset(Undefined)
    \/ \E a \in ReentrantArgs : setValue(a)
    \/ clearHistory
    \/ destroy
    \/ EmitDone

SpecHistory == InitHistory /\ [][NextHistory]_vars

\* C6: the history log never holds more than maxHistoryLength entries, and an
\* accepted mutation appends its entry at the end, the oldest entry leaving
\* when the log is full.
C6_HistoryCappedFifo ==
    /\ [](history.on => Len(history.log) <= options.maxHistoryLength)
    /\ [][history.on /\ Len(stack') > Len(stack) =>
            /\ history'.log # <<>>
            /\ Last(history'.log) =
                   Entry(Top'.data.action, value, value', now)
            /\ history'.log =
                   IF Len(history.log) < options.maxHistoryLength
                   THEN Append(history.log, Last(history'.log))
                   ELSE Append(Tail(history.log), Last(history'.log))]_vars

\* A log of length 2 holds the second and the third mutation since the
\* construction: the 'init' entry and the first mutation have left.
C6_OldestEvicted ==
    /\ history.on
    /\ options.maxHistoryLength = 2
    /\ Len(history.log) = 2
    /\ history.log[1].action = "increment"
    /\ history.log[1].oldValue = 1
    /\ history.log[1].newValue = 2
    /\ history.log[2].action = "decrement"
    /\ history.log[2].oldValue = 2

-----------------------------------------------------------------------------
(* A medium that fails *)

\* The options tried on such a medium: persistence and a history of length 1.
FailingOptions == {o \in BoundedOptions : o.persistValue /\ o.maxHistoryLength = 1}

\* The page is loaded on a medium in any mode.
InitFailing == Loaded(MediumModes, {Absent}, FailingOptions, FALSE)

NextFailing ==
    \/ Tick
    \/ \E mode \in MediumModes : MediumChange(mode)
    \/ NewCounter(DefaultReset)
    \/ PageLoad(DefaultReset)
    \/ increment(Undefined)
    \/ decrement(Undefined)
    \/ reset(Undefined)
    \/ \E a \in ReentrantArgs : setValue(a)
    \/ on("change", "f")
    \/ clearHistory
    \/ destroy
    \/ InvokeNext
    \/ CallbackReturn
    \/ EmitDone

SpecFailing == InitFailing /\ [][NextFailing]_vars

\* save() fails: the probe failed, or setItem throws.
SaveFails == ~isSupported \/ SetItemThrows(mediumMode)

\* The value a call asks for is finite and, once clamped, not the current one.
IsAccepted(newValue) == newValue.t = "number" /\ Target(newValue) # value

\* The step does in memory all that an accepted updateValue(newValue, action)
\* does over a working medium, and stores nothing.
AppliedInMemory(newValue, action) ==
    /\ getValue' = Target(newValue)
    /\ lastUpdated' = now
    /\ history' = IF history.on
                  THEN [on |-> TRUE,
                        log |-> PushCapped(options, history.log,
                                           Entry(action, value, value', now))]
                  ELSE history
    /\ Len(stack') = Len(stack) + 1
    /\ Top'.data = ChangeEvent(value', value, action, now)
    /\ Top'.rest = listeners["change"]
    /\ medium' = medium

\* C8: when save() fails, an accepted mutation still sets value and
\* lastUpdated, appends to the history and notifies the subscribers, and
\* the mutator returns the new value.
C8_SaveFailureDoesNotInterrupt ==
    /\ [][MayMutate /\ options.persistValue /\ SaveFails =>
            /\ IsAccepted(JsAdd(value, DefaultAmount)) /\ increment(Undefined)
                   => AppliedInMemory(JsAdd(value, DefaultAmount), "increment")
            /\ IsAccepted(JsSub(value, DefaultAmount)) /\ decrement(Undefined)
                   => AppliedInMemory(JsSub(value, DefaultAmount), "decrement")
            /\ IsAccepted(Num(DefaultReset)) /\ reset(Undefined)
                   => AppliedInMemory(Num(DefaultReset), "reset")
            /\ \A a \in ReentrantArgs :
                   IsAccepted(a) /\ setValue(a) => AppliedInMemory(a, "set")]_vars
    /\ [][EmitDone => Top.done = Top.registered /\ ret' = Num(Top.data.value)
                          /\ getValue' = Top.data.value]_vars

\* A subscriber is running for a mutation made while setItem throws: the
\* value is the new one and the store still holds the one before.
C8_NotifiedDespiteFailure ==
    /\ stack # <<>>
    /\ Top.cur = "f"
    /\ options.persistValue
    /\ isSupported
    /\ mediumMode = "quota"
    /\ value = Top.data.value
    /\ lastUpdated = now
    /\ now > 0
    /\ history.log = <<Entry(Top.data.action, Top.data.oldValue, value, now)>>
    /\ ValueItem.t = "wrapped"
    /\ ValueItem.payload.value = Num(Top.data.oldValue)

\* The store works: the probe succeeded and localStorage does not throw.
StoreWorks == isSupported /\ mediumMode = "ok"

\* C11: destroy() leaves no subscriber of any event and an empty log, and,
\* with persistValue on a working store, neither the value item nor the
\* history item in the medium.
C11_DestroyClearsAll ==
    [][destroy =>
          /\ \A e \in Events : listeners'[e] = <<>>
          /\ history'.log = <<>>
          /\ options.persistValue /\ StoreWorks =>
                 /\ ValueItem' = Absent
                 /\ HistoryItem' = Absent]_vars

\* destroy() has just returned on a working store, on a counter whose last
\* mutation was made later than its construction: the log is empty and both
\* items are gone.
C11_Destroyed ==
    /\ ret = Undefined
    /\ history.on
    /\ history.log = <<>>
    /\ options.persistValue
    /\ StoreWorks
    /\ now > 0
    /\ lastUpdated = now
    /\ ValueItem = Absent
    /\ HistoryItem = Absent

-----------------------------------------------------------------------------
(* The array getHistory() returns, in the hands of the page *)

\* The array [...this.history]: a new array whose elements are the entry
\* objects of the log themselves.  An element records which entry of the log
\* it is (0: none of them) beside the fields read through it.
HeldNull == [t |-> "null", entries |-> <<>>]
HeldArray(es) == [t |-> "array", entries |-> es]
SpreadOf(log) == [i \in 1..Len(log) |-> [link |-> i, entry |-> log[i]]]

\* The page calls getHistory() and keeps what it returns.
HoldHistory ==
    /\ stack = <<>>
    /\ held = NotHeld
    /\ held' = IF getHistory.isNull THEN HeldNull
               ELSE HeldArray(SpreadOf(getHistory.entries))
    /\ UNCHANGED <<counterVars, storageVars, stack, mediumMode, now, reentrant, app, kept,
                   ret, warned>>

\* An entry the page makes up, and a value it writes into a field.
ForeignEntry == Entry("set", 0, 1, 0)
AlteredValue == 0 - 1

\* The page pushes an entry of its own onto the array it holds.
HeldPush ==
    /\ held.t = "array"
    /\ Len(held.entries) <= MaxHistory
    /\ held' = HeldArray(Append(held.entries, [link |-> 0, entry |-> ForeignEntry]))
    /\ UNCHANGED <<counterVars, storageVars, stack, mediumMode, now, reentrant, app, kept,
                   ret, warned>>

\* The page shifts the first element off the array it holds.
HeldShift ==
    /\ held.t = "array"
    /\ held.entries # <<>>
    /\ held' = HeldArray(Tail(held.entries))
    /\ UNCHANGED <<counterVars, storageVars, stack, mediumMode, now, reentrant, app, kept,
                   ret, warned>>

\* The page assigns to the newValue field of element i of the array it
\* holds: the object assigned to is the entry of the log, when it is one.
HeldAlter(i) ==
    /\ held.t = "array"
    /\ i \in 1..Len(held.entries)
    /\ held.entries[i].entry.newValue # AlteredValue
    /\ LET el == held.entries[i]
           e == [el.entry EXCEPT !.newValue = AlteredValue]
       IN  /\ held' = HeldArray([held.entries EXCEPT ![i] = [el EXCEPT !.entry = e]])
           /\ history' = IF el.link = 0 THEN history
                         ELSE [history EXCEPT !.log[el.link] = e]
    /\ UNCHANGED <<options, value, lastUpdated, listeners, storageVars, stack,
                   mediumMode, now, reentrant, app, kept, ret, warned>>

\* The page lets go of the array.
Release ==
    /\ held # NotHeld
    /\ held' = NotHeld
    /\ UNCHANGED <<counterVars, storageVars, stack, mediumMode, now, reentrant, app, kept,
                   ret, warned>>

\* The options tried: the bounded ones without persistence, with and
\* without a history.
AliasOptions ==
    {Opts(0, 2, FALSE, TRUE, hist, MaxHistory) : hist \in BOOLEAN}

InitAlias == Loaded({"ok"}, {Absent}, AliasOptions, FALSE)

\* The counter is called only while the page holds no array.
NextAlias ==
    \/ held = NotHeld /\ increment(Undefined)
    \/ held = NotHeld /\ decrement(Undefined)
    \/ held = NotHeld /\ \E a \in ReentrantArgs : setValue(a)
    \/ held = NotHeld /\ clearHistory
    \/ EmitDone
    \/ HoldHistory
    \/ HeldPush
    \/ HeldShift
    \/ \E i \in 1..MaxHistory : HeldAlter(i)
    \/ Release

SpecAlias == InitAlias /\ [][NextAlias]_vars

\* C10: getHistory() returns null when the history is disabled, and
\* otherwise an array with which the page can do nothing (push, shift,
\* assignment to a field of an element) that changes what a later
\* getHistory() returns.
C10_HistoryCopyIsDefensive ==
    /\ [](held # NotHeld => (held = HeldNull <=> ~options.enableHistory))
    /\ [][held # NotHeld /\ held' # NotHeld => getHistory' = getHistory]_vars

-----------------------------------------------------------------------------
(* Subscribing and unsubscribing *)

\* The options tried: bounds [0, 2], neither persistence nor history.
SubscribeOptions == {Opts(0, 2, FALSE, TRUE, FALSE, DefaultMaxHistoryLength)}

\* The subscriptions tried: two listeners of 'change', one of them also a
\* listener of 'error'.
SubscribeSubs == Subscriptions \cup {<<"error", "f">>}

InitSubscribe == Loaded({"ok"}, {Absent}, SubscribeOptions, FALSE)

\* The page subscribes and unsubscribes, by off() and by the closures it
\* stored, between mutations.
NextSubscribe ==
    \/ \E sub \in SubscribeSubs : on(sub[1], sub[2])
    \/ \E sub \in SubscribeSubs : off(sub[1], sub[2])
    \/ KeepClosure
    \/ \E i \in 1..MaxKept : CallKept(i)
    \/ \E a \in ReentrantArgs : setValue(a)
    \/ InvokeNext
    \/ CallbackReturn
    \/ EmitDone

SpecSubscribe == InitSubscribe /\ [][NextSubscribe]_vars

\* C12: the callbacks of an event form a set.  No callback is registered
\* twice; on() of a registered callback leaves the listeners as they are; a
\* notification invokes no callback twice and, once through, has invoked
\* each registered callback once; and after one off() the callback is not
\* registered.
C12_SubscribersFormASet ==
    /\ [](\A e \in Events : \A c \in Callbacks : CountIn(listeners[e], c) <= 1)
    /\ [][\A sub \in SubscribeSubs :
            Contains(listeners[sub[1]], sub[2]) /\ on(sub[1], sub[2])
                => listeners' = listeners /\ stack' = stack]_vars
    /\ [](\A i \in 1..Len(stack) : \A c \in Callbacks :
            /\ CountIn(stack[i].done, c) <= 1
            /\ Finished(stack[i]) /\ Contains(stack[i].registered, c)
                   => CountIn(stack[i].done, c) = 1)
    /\ [][\A sub \in SubscribeSubs :
            off(sub[1], sub[2]) => ~Contains(listeners'[sub[1]], sub[2])]_vars

\* The page has stored the closures of two calls on('change', f) and called
\* neither, and a notification is through that invoked f, the one callback
\* registered, once.
C12_TwiceRegisteredOnceInvoked ==
    /\ Len(kept) = 2
    /\ \A i \in 1..2 :
           kept[i] = [event |-> "change", callback |-> "f", called |-> FALSE]
    /\ stack # <<>>
    /\ Finished(Top)
    /\ Top.registered = <<"f">>
    /\ Top.done = <<"f">>

\* What off(e, c) and the closure of on(e, c) do to the listeners: c leaves
\* the callbacks of e, and nothing else changes.
Unsubscribed(e, c) ==
    /\ listeners' = [listeners EXCEPT ![e] = Without(@, c)]
    /\ ~Contains(listeners'[e], c)
    /\ Without(listeners'[e], c) = listeners'[e]
    /\ ~Contains(listeners[e], c) => listeners' = listeners /\ stack' = stack
    /\ UNCHANGED <<value, lastUpdated, history, medium>>

\* C13: the closure on(e, c) returned and off(e, c) have the same effect:
\* c is no longer a callback of e, the other callbacks stay as they are, and
\* nothing changes when c was not registered (so that a second call right
\* after the first changes nothing); a notification invokes only callbacks
\* that are registered.
C13_UnsubscribeSymmetric ==
    /\ [][\A i \in 1..Len(kept) :
            CallKept(i) => Unsubscribed(kept[i].event, kept[i].callback)]_vars
    /\ [][\A sub \in SubscribeSubs :
            off(sub[1], sub[2]) => Unsubscribed(sub[1], sub[2])]_vars
    /\ [](stack # <<>> =>
            \A c \in Callbacks :
                Contains(Top.done \o Top.rest, c) => Contains(listeners["change"], c))

\* The page has called the closure of on('change', f), and a later
\* notification is through that invoked g alone.
C13_UnsubscribedNotInvoked ==
    /\ kept # <<>>
    /\ kept[1] = [event |-> "change", callback |-> "f", called |-> TRUE]
    /\ listeners["change"] = <<"g">>
    /\ stack # <<>>
    /\ Finished(Top)
    /\ Top.done = <<"g">>

-----------------------------------------------------------------------------
(* Construction *)

\* The options tried: bounds [0, 2] and a history of length 1, with and
\* without persistence, validation and history.
ConstructOptions ==
    {Opts(0, 2, persist, validate, hist, 1) :
        persist \in BOOLEAN, validate \in BOOLEAN, hist \in BOOLEAN}

InitConstruct == Loaded({"ok"}, ForeignValueItems, ConstructOptions, FALSE)

\* The page sets values and constructs the counter again, over whatever the
\* store then holds.
NextConstruct ==
    \/ Tick
    \/ \E iv \in InitialValues : PageLoad(iv)
    \/ \E iv \in InitialValues : NewCounter(iv)
    \/ \E a \in ArgValues : setValue(a)
    \/ destroy
    \/ EmitDone

SpecConstruct == InitConstruct /\ [][NextConstruct]_vars

\* The value item is a record with a number as its value.
HoldsNumber(item) ==
    item.t = "wrapped" /\ item.payload.t = "object" /\ item.payload.value.t = "number"

\* The state after the step is that of a counter just constructed with the
\* initial value iv: the value is the stored one if persistValue is on and
\* the store holds a number, and iv otherwise, clamped if validateBounds is
\* on; and the log, if enabled, is one 'init' entry for that value.
StartsFrom(iv) ==
    LET start == IF options.persistValue /\ HoldsNumber(ValueItem)
                 THEN ValueItem.payload.value.n ELSE iv
        first == IF options.validateBounds
                 THEN Max(options.minValue, Min(options.maxValue, start)) ELSE start
    IN  /\ getValue' = first
        /\ options.enableHistory =>
               /\ ~getHistory'.isNull
               /\ Len(getHistory'.entries) = 1
               /\ getHistory'.entries[1].action = "init"
               /\ getHistory'.entries[1].oldValue = getValue'
               /\ getHistory'.entries[1].newValue = getValue'
        /\ ~options.enableHistory => getHistory'.isNull

\* C14: a counter just constructed has the persisted value if persistValue
\* is on and a well-formed record exists, and else the initial value given to
\* the constructor, clamped if validateBounds is on; its log, if enabled, is
\* one 'init' entry with oldValue = newValue = getValue().
C14_InitEntryAndStartingValue ==
    [][stack = <<>> =>
          \A iv \in InitialValues :
              PageLoad(iv) \/ NewCounter(iv) => StartsFrom(iv)]_vars

\* A counter has just been constructed, later than the first, with an
\* initial value above maxValue over a store that holds text that does not
\* parse: the value is maxValue and the log is its 'init' entry.
C14_ConstructedOverGarbage ==
    /\ ret = Undefined
    /\ now > 0
    /\ options.persistValue
    /\ options.validateBounds
    /\ ValueItem = Garbage
    /\ value = options.maxValue
    /\ history.on
    /\ history.log = <<Entry("init", value, value, now)>>

-----------------------------------------------------------------------------
(* The store, called by the page itself *)

USER_PREFERENCES == "user_preferences"

\* The keys the page calls the store with.
StoreKeys == {COUNTER_VALUE, USER_PREFERENCES}
\* A key of another program that shares the medium.
ForeignKeys == {"counter-app-counter_value"}
StoreMediumKeys == {getPrefixedKey(k) : k \in StoreKeys} \cup ForeignKeys

\* The values saved: a number, NaN, undefined and an object that refers to
\* itself.  The defaults given to load(): null and a number.
StoreValues == {Scalar(Num(1)), Scalar(NaN), Scalar(Undefined), Circular}
StoreDefaults == {NoPayload, Scalar(Num(0))}

\* The options of the counter of this page: it does not use the store.
StoreOptions == Opts(0, 2, FALSE, TRUE, FALSE, DefaultMaxHistoryLength)

\* The storage singleton has been constructed over a medium in some mode
\* that holds an item of another program and, under the keys of the
\* application, nothing or what a load() falls back on.
InitStore ==
    \E mode \in MediumModes :
    \E items \in [{getPrefixedKey(k) : k \in StoreKeys} -> {Absent, Garbage, NoShape}] :
        LET c == Constructed(DefaultReset, StoreOptions, FALSE, mode, 0, items)
        IN  /\ mediumMode = mode
            /\ isSupported = checkLocalStorageSupport(mode)
            /\ medium = [k \in StoreMediumKeys |->
                             IF k \in ForeignKeys THEN Garbage ELSE items[k]]
            /\ now = 0
            /\ options = StoreOptions
            /\ value = c.value
            /\ lastUpdated = c.lastUpdated
            /\ history = c.history
            /\ listeners = NoListeners
            /\ stack = <<>>
            /\ ret = Undefined
            /\ warned = FALSE
            /\ reentrant = FALSE
            /\ held = NotHeld
            /\ kept = <<>>
            /\ app = NoApp

\* new StorageManager(): the probe is made and its result kept.
StoreConstruct ==
    /\ isSupported' = checkLocalStorageSupport(mediumMode)
    /\ ret' = Undefined
    /\ UNCHANGED <<counterVars, medium, stack, envVars, warned>>

StoreSave(k, p) ==
    LET r == save(isSupported, mediumMode, now, medium, k, p)
    IN  /\ medium' = r.medium
        /\ ret' = Bool(r.ok)
        /\ UNCHANGED <<counterVars, isSupported, stack, envVars, warned>>

StoreLoad(k, d) ==
    /\ ret' = load(isSupported, mediumMode, medium, k, d)
    /\ UNCHANGED <<counterVars, storageVars, stack, envVars, warned>>

StoreRemove(k) ==
    LET r == remove(isSupported, mediumMode, medium, k)
    IN  /\ medium' = r.medium
        /\ ret' = Bool(r.ok)
        /\ UNCHANGED <<counterVars, isSupported, stack, envVars, warned>>

StoreClear ==
    LET r == clear(isSupported, mediumMode, medium)
    IN  /\ medium' = r.medium
        /\ ret' = Bool(r.ok)
        /\ UNCHANGED <<counterVars, isSupported, stack, envVars, warned>>

StoreGetAllKeys ==
    /\ ret' = [t |-> "keys", keys |-> getAllKeys(isSupported, mediumMode, medium)]
    /\ UNCHANGED <<counterVars, storageVars, stack, envVars, warned>>

StoreGetStorageInfo ==
    /\ ret' = getStorageInfo(isSupported, mediumMode, medium)
    /\ UNCHANGED <<counterVars, storageVars, stack, envVars, warned>>

NextStore ==
    \/ Tick
    \/ \E mode \in MediumModes : MediumChange(mode)
    \/ StoreConstruct
    \/ \E k \in StoreKeys, p \in StoreValues : StoreSave(k, p)
    \/ \E k \in StoreKeys, d \in StoreDefaults : StoreLoad(k, d)
    \/ \E k \in StoreKeys : StoreRemove(k)
    \/ StoreClear
    \/ StoreGetAllKeys
    \/ StoreGetStorageInfo

SpecStore == InitStore /\ [][NextStore]_vars

\* What load(k, d) returns in the present state.
LoadOf(k, d) == load(isSupported, mediumMode, medium, k, d)

\* JSON.parse of JSON.stringify of the value is the value.
Survives(p) == p.t # "circular" /\ p # Scalar(Undefined) /\ Stringify(p) = p

\* A step that is neither save(k, ...), remove(k) nor clear() leaves what
\* load(k, d) returns as it is, while the store works.
LoadStable ==
    StoreWorks /\ StoreWorks' =>
        \A k \in StoreKeys :
            (/\ ~(\E p \in StoreValues : StoreSave(k, p))
             /\ ~StoreRemove(k)
             /\ ~StoreClear)
            => \A d \in StoreDefaults : LoadOf(k, d)' = LoadOf(k, d)

\* After remove(k) and after clear(), load(k, d) returns d.
LoadAfterRemoval ==
    StoreWorks =>
        \A k \in StoreKeys :
            StoreRemove(k) \/ StoreClear
                => ret' = Bool(TRUE) /\ \A d \in StoreDefaults : LoadOf(k, d)' = d

\* C15 as amended: over a working store, save(k, v) of a value v that JSON
\* represents exactly returns true, and load(k, d) then returns v whatever d,
\* until k is saved again, removed or cleared; after remove(k) or clear(),
\* load(k, d) returns d.
C15_SaveThenLoad ==
    /\ [][StoreWorks =>
            \A k \in StoreKeys : \A p \in StoreValues :
                Survives(p) /\ StoreSave(k, p)
                    => /\ ret' = Bool(TRUE)
                       /\ \A d \in StoreDefaults : LoadOf(k, d)' = p]_vars
    /\ [][LoadStable]_vars
    /\ [][LoadAfterRemoval]_vars

\* load() has returned the number saved at an earlier time under the value
\* key, over a store that holds nothing under the other key.
C15_LoadedWhatWasSaved ==
    /\ ret = Scalar(Num(1))
    /\ StoreWorks
    /\ now > 0
    /\ ValueItem = Wrapped(Scalar(Num(1)), 0)
    /\ medium[getPrefixedKey(USER_PREFERENCES)] = Absent

\* C15 as stated: the same for every value v.
C15_SaveThenLoadAnyValue ==
    /\ [][StoreWorks =>
            \A k \in StoreKeys : \A p \in StoreValues :
                StoreSave(k, p)
                    => /\ ret' = Bool(TRUE)
                       /\ \A d \in StoreDefaults : LoadOf(k, d)' = p]_vars
    /\ [][LoadStable /\ LoadAfterRemoval]_vars

\* load(k, ...) has nothing to return: the probe failed, or the item is
\* absent, is text that does not parse, or parses to something that is not
\* an object with a 'value' field.
NothingToLoad(k) ==
    \/ ~isSupported
    \/ medium[getPrefixedKey(k)].t \in {"absent", "garbage", "noshape"}

\* C16: load(k, d) returns d and leaves the medium as it is when the key is
\* absent, the medium unsupported, the text unparsable or the parsed value
\* not a wrapper object.
C16_LoadFallsBack ==
    [][\A k \in StoreKeys : \A d \in StoreDefaults :
          NothingToLoad(k) /\ StoreLoad(k, d) => ret' = d /\ medium' = medium]_vars

\* load() has returned the default that is a number, over a working store
\* that holds unparsable text under one key and JSON of another shape under
\* the other.
C16_DefaultReturned ==
    /\ ret = Scalar(Num(0))
    /\ StoreWorks
    /\ ValueItem = Garbage
    /\ medium[getPrefixedKey(USER_PREFERENCES)] = NoShape

\* C17: clear() leaves every key that does not start with the prefix, and
\* its item, as it is; when the probe succeeded and the medium does not
\* throw, it returns true and leaves no key that starts with the prefix.
C17_ClearOnlyOwnKeys ==
    [][StoreClear =>
          /\ \A k \in DOMAIN medium :
                 ~startsWith(k, prefix) => medium'[k] = medium[k]
          /\ isSupported /\ ~AccessThrows(mediumMode) =>
                 /\ ret' = Bool(TRUE)
                 /\ \A k \in DOMAIN medium :
                        startsWith(k, prefix) => k \notin KeysIn(medium')]_vars

\* A call has returned true, later than the store was constructed, over a
\* working store: no
\* item of the application is left and the item of the other program is.
C17_Cleared ==
    /\ ret = Bool(TRUE)
    /\ StoreWorks
    /\ now > 0
    /\ KeysIn(medium) = ForeignKeys
    /\ \A k \in ForeignKeys : medium[k] = Garbage

\* C18: no operation of the store raises to its caller, whatever the medium
\* does, and a save() that fails leaves the medium as it is.
C18_NoOperationRaises ==
    /\ [](ret # Thrown)
    /\ [][\A k \in StoreKeys : \A p \in StoreValues :
            StoreSave(k, p) /\ ret' = Bool(FALSE) => medium' = medium]_vars

-----------------------------------------------------------------------------
(* Calls that saturate at a bound *)

\* The options tried: bounds [0, 2] with validation, persistence and a
\* history.
BoundaryOptions == {Opts(0, 2, TRUE, TRUE, TRUE, MaxHistory)}

\* The values set (below minValue and above maxValue) and the amount added
\* and subtracted (more than maxValue - minValue).
BoundaryArgs == {Num(0 - MaxFinite), Num(MaxFinite)}
BoundaryAmounts == {Num(MaxSafe)}

InitBoundary == Loaded({"ok"}, {Absent}, BoundaryOptions, FALSE)

NextBoundary ==
    \/ Tick
    \/ \E a \in BoundaryArgs : setValue(a)
    \/ \E a \in BoundaryAmounts : increment(a)
    \/ \E a \in BoundaryAmounts : decrement(a)
    \/ on("change", "f")
    \/ clearHistory
    \/ InvokeNext
    \/ CallbackReturn
    \/ EmitDone

SpecBoundary == InitBoundary /\ [][NextBoundary]_vars

\* The step leaves the value at the bound; when it was there already, the
\* step changes nothing and starts no notification, and otherwise it starts
\* one notification of the callbacks registered.
SaturatesAt(bound) ==
    /\ getValue' = bound
    /\ IF getValue = bound
       THEN /\ UNCHANGED <<history, lastUpdated, medium>>
            /\ stack' = stack
            /\ ret' = Num(bound)
       ELSE /\ Len(stack') = Len(stack) + 1
            /\ Top'.data.value = bound
            /\ Top'.rest = listeners["change"]
            /\ history'.log # <<>>
            /\ Last(history'.log).newValue = bound

\* C20: with validateBounds on, setValue(v) for a finite v above maxValue,
\* and increment() to a finite sum above it, leave the value maxValue with
\* one notification, or, when the value is maxValue already (as it is when
\* the call is repeated), with no notification and the history unchanged;
\* the same below minValue for setValue() and decrement().
C20_SaturatesIdempotently ==
    /\ [][MayMutate /\ options.validateBounds =>
            /\ \A a \in BoundaryArgs :
                   /\ a.n > options.maxValue /\ setValue(a)
                          => SaturatesAt(options.maxValue)
                   /\ a.n < options.minValue /\ setValue(a)
                          => SaturatesAt(options.minValue)
            /\ \A a \in BoundaryAmounts :
                   /\ LET sum == JsAdd(getValue, a.n)
                      IN  sum.t = "number" /\ sum.n > options.maxValue /\ increment(a)
                              => SaturatesAt(options.maxValue)
                   /\ LET difference == JsSub(getValue, a.n)
                      IN  /\ difference.t = "number"
                          /\ difference.n < options.minValue
                          /\ decrement(a)
                          => SaturatesAt(options.minValue)]_vars
    /\ [][EmitDone => getValue' = Top.data.value /\ ret' = Num(getValue')]_vars

\* A call has returned maxValue without a warning and without an entry in
\* the log, which was cleared after the call before it had brought the
\* value to maxValue, later than the construction.
C20_RepeatedAtMax ==
    /\ ret = Num(options.maxValue)
    /\ ~warned
    /\ stack = <<>>
    /\ getValue = options.maxValue
    /\ history.on
    /\ history.log = <<>>
    /\ lastUpdated > 0
    /\ listeners["change"] = <<"f">>

-----------------------------------------------------------------------------
(* reset() *)

\* The options tried: a history, bounds [0, 2] and [1, 2] (0 is not within
\* the latter), with and without validation.
ResetOptions ==
    {Opts(lo, 2, FALSE, validate, TRUE, MaxHistory) :
        lo \in {0, 1}, validate \in BOOLEAN}

InitReset == Loaded({"ok"}, {Absent}, ResetOptions, FALSE)

\* The page resets to 0, with and without the argument, and moves the value
\* by one.
NextReset ==
    \/ Tick
    \/ reset(Num(DefaultReset))
    \/ reset(Undefined)
    \/ increment(Undefined)
    \/ decrement(Undefined)
    \/ clearHistory
    \/ EmitDone

SpecReset == InitReset /\ [][NextReset]_vars

\* The step has appended the entry of a reset to 0 from the value before it.
ResetLogged ==
    /\ history'.log # <<>>
    /\ Last(history'.log).action = "reset"
    /\ Last(history'.log).oldValue = getValue
    /\ Last(history'.log).diff = Num(0 - getValue)
    /\ Len(history'.log) = Min(Len(history.log) + 1, options.maxHistoryLength)

\* 0 is a value the counter may take.
ZeroAllowed ==
    ~options.validateBounds \/ (options.minValue <= 0 /\ 0 <= options.maxValue)

\* C21 as amended: reset(0), when the value is not 0 and 0 is within the
\* bounds or validateBounds is off, appends an entry with action 'reset' and
\* diff = 0 - oldValue, oldValue being the value before the call.
C21_ResetLogsDiff ==
    [][MayMutate /\ history.on /\ getValue # 0 /\ ZeroAllowed =>
          \A a \in {Num(DefaultReset), Undefined} : reset(a) => ResetLogged]_vars

\* The subscribers are being notified of a reset from 2 to 0, and the
\* newest entry of the log is that of the reset, with diff -2.
C21_ResetFromTwo ==
    /\ stack # <<>>
    /\ Top.data.action = "reset"
    /\ Top.data.oldValue = 2
    /\ getValue = 0
    /\ history.log # <<>>
    /\ Last(history.log).action = "reset"
    /\ Last(history.log).diff = Num(0 - 2)

\* C21 as stated: every reset(0) appends such an entry.
C21_ResetAlwaysLogs ==
    [][MayMutate /\ history.on =>
          \A a \in {Num(DefaultReset), Undefined} : reset(a) => ResetLogged]_vars

-----------------------------------------------------------------------------
(* increment(amount) followed by decrement(amount) *)

\* What the page wrote down: the value it read before the two calls, the
\* amount it passes to both, and the value increment() returned.
Unset == Undefined
Noted(before, amount, mid) ==
    [t |-> "noted", entries |-> <<>>, before |-> before, amount |-> amount,
     mid |-> mid]

\* const before = counter.getValue(), for the amount a it is about to use.
NoteValue(a) ==
    /\ stack = <<>>
    /\ held = NotHeld
    /\ held' = Noted(getValue, a, Unset)
    /\ ret' = Undefined
    /\ warned' = FALSE
    /\ UNCHANGED <<counterVars, storageVars, stack, mediumMode, now, reentrant, app, kept>>

\* const mid = counter.increment(amount): the call, and the assignment of
\* what it returned.
NotedIncrement ==
    /\ held.t = "noted"
    /\ held.mid = Unset
    /\ ret = Undefined
    /\ increment(held.amount)

NoteReturn ==
    /\ stack = <<>>
    /\ held.t = "noted"
    /\ held.mid = Unset
    /\ ret.t = "number"
    /\ held' = [held EXCEPT !.mid = ret]
    /\ ret' = Undefined
    /\ UNCHANGED <<counterVars, storageVars, stack, mediumMode, now, reentrant, app, kept,
                   warned>>

\* counter.decrement(amount), with the same amount.
NotedDecrement ==
    /\ held.t = "noted"
    /\ held.mid # Unset
    /\ ret = Undefined
    /\ decrement(held.amount)

\* The options tried: every finite number allowed, and a narrow range.
RoundTripOptions ==
    {Opts(0 - MaxFinite, MaxFinite, FALSE, TRUE, FALSE, MaxHistory),
     Opts(0, 2, FALSE, TRUE, FALSE, MaxHistory)}

\* Where the page puts the counter, and the amounts of the two calls.
RoundTripArgs == {Num(MaxSafe), Num(MaxSafe + 1)}
RoundTripAmounts == {Num(0 - 1), Num(0), Num(1), Num(2)}

InitRoundTrip == Loaded({"ok"}, {Absent}, RoundTripOptions, FALSE)

NextRoundTrip ==
    \/ Tick
    \/ held = NotHeld /\ \E a \in RoundTripArgs : setValue(a)
    \/ \E a \in RoundTripAmounts : NoteValue(a)
    \/ NotedIncrement
    \/ NoteReturn
    \/ NotedDecrement
    \/ EmitDone
    \/ Release

SpecRoundTrip == InitRoundTrip /\ [][NextRoundTrip]_vars

\* Both calls have returned.
RoundTripDone ==
    /\ stack = <<>>
    /\ held.t = "noted"
    /\ held.mid # Unset
    /\ ret.t = "number"

\* The value after increment(amount) is a number within the bounds.
IntermediateWithin ==
    /\ JsAdd(held.before, held.amount.n).t = "number"
    /\ options.minValue <= JsAdd(held.before, held.amount.n).n
    /\ JsAdd(held.before, held.amount.n).n <= options.maxValue

\* The sum of the value and the amount is a number as it stands: the
\* addition rounds nothing away.
SumExact == IsNumber(held.before + held.amount.n)

\* C22: increment(amount) followed by decrement(amount) leaves getValue()
\* at the value it had before, for every finite amount such that the value
\* in between stays within the bounds and the addition is exact.
C22_RoundTripWhenExact ==
    RoundTripDone /\ IntermediateWithin /\ SumExact =>
        /\ getValue = held.before
        /\ ret = Num(held.before)

\* The two calls have returned on a counter that both of them changed.
C22_WentAndCameBack ==
    /\ RoundTripDone
    /\ IntermediateWithin
    /\ SumExact
    /\ held.mid # Num(held.before)
    /\ held.amount = Num(2)
    /\ getValue = held.before

\* C22 as stated: for every finite amount such that the value in between
\* stays within the bounds.
C22_RoundTripAlways ==
    RoundTripDone /\ IntermediateWithin => getValue = held.before

-----------------------------------------------------------------------------
(* clearHistory() *)

\* The options tried: with and without a history, with and without
\* persistence.
ClearOptions ==
    {Opts(0, 2, persist, TRUE, hist, 1) : persist \in BOOLEAN, hist \in BOOLEAN}

InitClear == Loaded(MediumModes, {Absent}, ClearOptions, FALSE)

NextClear ==
    \/ Tick
    \/ \E mode \in MediumModes : MediumChange(mode)
    \/ increment(Undefined)
    \/ \E a \in ReentrantArgs : setValue(a)
    \/ on("change", "f")
    \/ clearHistory
    \/ InvokeNext
    \/ CallbackReturn
    \/ EmitDone

SpecClear == InitClear /\ [][NextClear]_vars

\* No emit() is started and no callback is invoked.
NothingFired ==
    /\ Len(stack') = Len(stack)
    /\ \A i \in 1..Len(stack) :
           /\ stack'[i].data = stack[i].data
           /\ stack'[i].done = stack[i].done
           /\ stack'[i].rest = stack[i].rest

\* C23: clearHistory() on a counter without a history returns false and
\* changes neither the value, the log, the subscribers nor the two items
\* in the medium; on a counter with a history it returns true, leaves
\* the log empty, leaves no history item in the medium when persistValue is
\* on and the store works (and the item as it is when persistValue is off),
\* and changes neither the value nor the value item, nor the subscribers,
\* and starts no notification.
C23_ClearHistoryFrame ==
    [][clearHistory =>
          /\ value' = value
          /\ lastUpdated' = lastUpdated
          /\ listeners' = listeners
          /\ ValueItem' = ValueItem
          /\ NothingFired
          /\ IF ~history.on
             THEN /\ ret' = Bool(FALSE)
                  /\ history' = history
                  /\ HistoryItem' = HistoryItem
             ELSE /\ ret' = Bool(TRUE)
                  /\ history'.log = <<>>
                  /\ options.persistValue /\ StoreWorks => HistoryItem' = Absent
                  /\ ~options.persistValue => HistoryItem' = HistoryItem]_vars

\* clearHistory() has just returned true on a working store, on a persisted
\* counter with a subscriber whose value was changed later than it was
\* constructed: the log is empty and the history item gone, the value item
\* is there.
C23_ClearedWithValueKept ==
    /\ ret = Bool(TRUE)
    /\ stack = <<>>
    /\ history.on
    /\ history.log = <<>>
    /\ options.persistValue
    /\ StoreWorks
    /\ listeners["change"] # <<>>
    /\ lastUpdated > 0
    /\ HistoryItem = Absent
    /\ ValueItem # Absent

\* clearHistory() has just returned false.
C23_NothingToClear ==
    /\ ret = Bool(FALSE)
    /\ ~history.on
    /\ options.persistValue
    /\ StoreWorks
    /\ lastUpdated > 0
    /\ ValueItem # Absent

-----------------------------------------------------------------------------
(* The object export() returns, in the hands of the page *)

\* The history field of the object is this.history: the array of the
\* counter itself (or null), not a copy of it.
ThisHistory == [ref |-> "this.history"]

\* export(): the value and lastUpdated, the array of the log, and the
\* object getStats() makes.  The page reads the history through the object
\* as soon as it has it: that is `seen`.
export ==
    [t |-> "export", entries |-> <<>>, value |-> value,
     lastUpdated |-> lastUpdated, history |-> ThisHistory, stats |-> getStats,
     seen |-> getHistory]

\* What reading the history field of an object export() returned gives now.
ReadHistory(obj) == IF obj.history = ThisHistory THEN getHistory ELSE NullHistory

\* The page calls export() and keeps what it returns.
HoldExport ==
    /\ stack = <<>>
    /\ held = NotHeld
    /\ held' = export
    /\ UNCHANGED <<counterVars, storageVars, stack, mediumMode, now, reentrant, app, kept,
                   ret, warned>>

\* The options tried: the bounded ones without persistence, with and
\* without a history.
ExportOptions ==
    {Opts(0, 2, FALSE, TRUE, hist, MaxHistory) : hist \in BOOLEAN}

InitExport == Loaded({"ok"}, {Absent}, ExportOptions, FALSE)

NextExport ==
    \/ Tick
    \/ increment(Undefined)
    \/ decrement(Undefined)
    \/ reset(Undefined)
    \/ clearHistory
    \/ destroy
    \/ EmitDone
    \/ HoldExport
    \/ Release

SpecExport == InitExport /\ [][NextExport]_vars

\* C24: the history read through an object export() returned is the
\* history of the time of the call, whatever is done to the counter
\* afterwards (the value, lastUpdated and stats of the object are its own).
C24_SnapshotIsPointInTime ==
    held.t = "export" => ReadHistory(held) = held.seen

\* The value and the stats of the object are those of the time of the call
\* while the counter has moved on.
C24_SnapshotValueIsItsOwn ==
    /\ held.t = "export"
    /\ held.value # getValue
    /\ held.stats # getStats

-----------------------------------------------------------------------------
(* Calls on a destroyed counter, beside another counter *)

\* The options of the other counter: those the application constructs its
\* counter with, over the bounds of the model.
OtherOptions == Opts(0, 2, TRUE, TRUE, TRUE, MaxHistory)

\* Another counter in the hands of the page: its fields, and the medium as
\* its constructor left it (the items it wrote through the storage
\* singleton, which every counter uses with the same keys).
OtherCounter(c) ==
    [t |-> "instance", entries |-> <<>>, value |-> c.value,
     history |-> c.history, wrote |-> c.medium]

\* destroy() has returned on the counter: it is the only call of this
\* section that returns undefined, and it leaves the log empty, which the
\* constructor does not.
JustDestroyed ==
    /\ stack = <<>>
    /\ ret = Undefined
    /\ history.on
    /\ history.log = <<>>
    /\ listeners = NoListeners

\* const other = new Counter(0, {...}) once the first counter is destroyed.
ConstructOther ==
    /\ JustDestroyed
    /\ held = NotHeld
    /\ LET c == Constructed(DefaultReset, OtherOptions, isSupported, mediumMode,
                            now, medium)
       IN  /\ held' = OtherCounter(c)
           /\ medium' = c.medium
    /\ UNCHANGED <<counterVars, isSupported, stack, mediumMode, now, reentrant, app, kept,
                   ret, warned>>

\* The options of the first counter: with a history, persisted or not.
DestroyedOptions ==
    {Opts(0, 2, persist, TRUE, TRUE, MaxHistory) : persist \in BOOLEAN}

InitDestroyed == Loaded({"ok"}, {Absent}, DestroyedOptions, FALSE)

\* The other counter is constructed after destroy() and is not called; the
\* first counter is called before and after.
NextDestroyed ==
    \/ Tick
    \/ increment(Undefined)
    \/ decrement(Undefined)
    \/ reset(Undefined)
    \/ \E a \in ReentrantArgs : setValue(a)
    \/ clearHistory
    \/ destroy
    \/ EmitDone
    \/ ConstructOther

SpecDestroyed == InitDestroyed /\ [][NextDestroyed]_vars

\* C25: while another counter exists beside a destroyed one, the value item
\* and the history item in the medium are as the other counter wrote them:
\* no call on the destroyed counter changes them.
C25_OtherRecordsUntouched ==
    held.t = "instance" =>
        /\ HistoryItem = held.wrote[getPrefixedKey(COUNTER_HISTORY)]
        /\ ValueItem = held.wrote[getPrefixedKey(COUNTER_VALUE)]

\* The other counter has written its history item, and the destroyed
\* counter, which does not persist, has since been called.
C25_CalledAfterDestroy ==
    /\ held.t = "instance"
    /\ held.wrote[getPrefixedKey(COUNTER_HISTORY)] # Absent
    /\ ~options.persistValue
    /\ history.log # <<>>
    /\ HistoryItem = held.wrote[getPrefixedKey(COUNTER_HISTORY)]

-----------------------------------------------------------------------------
(* on() with a callback that is not a function *)

InitNotAFunction == Loaded({"ok"}, {Absent}, SubscribeOptions, FALSE)

NextNotAFunction ==
    \/ \E sub \in SubscribeSubs : on(sub[1], sub[2])
    \/ \E e \in Events : on(e, NotAFunction)
    \/ \E sub \in SubscribeSubs : off(sub[1], sub[2])
    \/ \E a \in ReentrantArgs : setValue(a)
    \/ InvokeNext
    \/ CallbackReturn
    \/ EmitDone

SpecNotAFunction == InitNotAFunction /\ [][NextNotAFunction]_vars

\* C26: on() with a callback that is not a function throws to its caller
\* within the call, and the subscribers of every event are the same
\* afterwards as before; no notification in progress gets a callback more.
C26_NotAFunctionRejected ==
    [][\A e \in Events :
           on(e, NotAFunction) =>
               /\ ret' = Thrown
               /\ listeners' = listeners
               /\ Len(stack') = Len(stack)
               /\ \A i \in 1..Len(stack) : stack'[i].rest = stack[i].rest]_vars

\* on() has just thrown on a counter that has subscribers of both events.
C26_ThrownWithSubscribers ==
    /\ ret = Thrown
    /\ listeners["change"] = <<"f", "g">>
    /\ listeners["error"] = <<"f">>

-----------------------------------------------------------------------------
(* The probe is made once *)

\* C27: isSupported changes only when a store is constructed; and on a
\* store whose probe failed every save(), remove() and clear() returns
\* false, every load() returns its default, and the medium stays as it
\* is, in whatever mode the medium is by then.
C27_ProbeCached ==
    /\ [][isSupported' # isSupported => StoreConstruct]_vars
    /\ [][~isSupported =>
             /\ \A k \in StoreKeys, p \in StoreValues :
                    StoreSave(k, p) => ret' = Bool(FALSE) /\ medium' = medium
             /\ \A k \in StoreKeys :
                    StoreRemove(k) => ret' = Bool(FALSE) /\ medium' = medium
             /\ StoreClear => ret' = Bool(FALSE) /\ medium' = medium
             /\ \A k \in StoreKeys, d \in StoreDefaults :
                    StoreLoad(k, d) => ret' = d /\ medium' = medium]_vars

\* A store whose probe failed, over a medium that works and holds an item
\* saved through an earlier store: a call has returned false.
C27_FailedProbeOverWorkingMedium ==
    /\ ~isSupported
    /\ mediumMode = "ok"
    /\ ret = Bool(FALSE)
    /\ medium[getPrefixedKey(COUNTER_VALUE)].t = "wrapped"

-----------------------------------------------------------------------------
(* What is done by the time the callbacks run *)

\* The page is loaded on a medium in any mode, which it keeps.
InitOrder == Loaded(MediumModes, {Absent}, ClearOptions, FALSE)

NextOrder ==
    \/ Tick
    \/ increment(Undefined)
    \/ \E a \in ReentrantArgs : setValue(a)
    \/ \E c \in Callbacks : on("change", c)
    \/ InvokeNext
    \/ CallbackReturn
    \/ EmitDone

SpecOrder == InitOrder /\ [][NextOrder]_vars

\* C28: from the start of a notification to its end, callbacks included,
\* value and lastUpdated are those of the event, the last entry of the log
\* (capped) is the entry of the event, and, with persistValue on a store
\* that works, the value item holds the new value and the history item the
\* log.
C28_AllDoneBeforeNotified ==
    stack # <<>> =>
        /\ getValue = Top.data.value
        /\ lastUpdated = Top.data.timestamp
        /\ history.on =>
               /\ history.log # <<>>
               /\ Len(history.log) <= options.maxHistoryLength
               /\ Last(history.log).action = Top.data.action
               /\ Last(history.log).oldValue = Top.data.oldValue
               /\ Last(history.log).newValue = Top.data.value
        /\ options.persistValue /\ StoreWorks =>
               /\ ValueItem.t = "wrapped"
               /\ ValueItem.payload.value = Num(Top.data.value)
               /\ ValueItem.payload.lastUpdated = Num(Top.data.timestamp)
               /\ history.on =>
                      /\ HistoryItem.t = "wrapped"
                      /\ Len(HistoryItem.payload.entries) = Len(history.log)
                      /\ Last(HistoryItem.payload.entries).newValue = Top.data.value

\* The first of two callbacks is being invoked for a change made later
\* than the construction, on a persisted counter with a history over a
\* store that works: the value item holds the new value.
C28_FirstCallbackSeesRecord ==
    /\ stack # <<>>
    /\ Top.cur = "f"
    /\ Top.done = <<"f">>
    /\ Top.rest = <<"g">>
    /\ options.persistValue
    /\ history.on
    /\ StoreWorks
    /\ Top.data.timestamp > 0
    /\ ValueItem.payload.value = Num(Top.data.value)

-----------------------------------------------------------------------------
(* The log as a chain of values *)

\* The options tried: a history of every length up to the bound, on a
\* page whose listeners call the counter.
ChainOptions == {Opts(0, 2, FALSE, TRUE, TRUE, cap) : cap \in 1..MaxHistory}

InitChain == Loaded({"ok"}, {Absent}, ChainOptions, TRUE)

NextChain ==
    \/ increment(Undefined)
    \/ decrement(Undefined)
    \/ reset(Undefined)
    \/ \E a \in ReentrantArgs : setValue(a)
    \/ on("change", "f")
    \/ clearHistory
    \/ destroy
    \/ NewCounter(DefaultReset)
    \/ InvokeNext
    \/ CallbackReturn
    \/ EmitDone

SpecChain == InitChain /\ [][NextChain]_vars

\* C30: with a history, the newValue of each entry of the log is the
\* oldValue of the next, every entry but an 'init' one has a newValue that
\* differs from its oldValue, and the newValue of the last entry of a log
\* that is not empty is getValue().
C30_HistoryIsChain ==
    history.on =>
        /\ \A i \in 1..(Len(history.log) - 1) :
               history.log[i].newValue = history.log[i + 1].oldValue
        /\ \A i \in 1..Len(history.log) :
               history.log[i].action # "init" =>
                   history.log[i].newValue # history.log[i].oldValue
        /\ history.log # <<>> => Last(history.log).newValue = getValue

\* A callback has changed the counter during a notification, and the log
\* is full, two entries long, with its 'init' entry evicted.
C30_ChainAfterEvictionInCallback ==
    /\ Len(stack) = 2
    /\ options.maxHistoryLength = 2
    /\ Len(history.log) = 2
    /\ history.log[1].action # "init"
    /\ history.log[1].newValue = history.log[2].oldValue
    /\ history.log[2].newValue = getValue

-----------------------------------------------------------------------------
(* The application: CounterApp, its buttons and the keys pressed on them *)

\* How many times bindEvents() is run at most.
MaxBindings == 2

\* The three buttons, and the keys handleButtonKeydown() acts on.
Buttons == {"increment", "decrement", "reset"}
ActivationKeys == {"Enter", " "}

\* The listener initializeCounter() subscribes.
onCounterChange == "f"

\* The options initializeCounter() passes, over the numbers of the model
\* and with the history as long as the bound allows.
AppOptions == Opts(0 - MaxSafe, MaxSafe, TRUE, TRUE, TRUE, MaxHistory)

\* bindEvents(): addEventListener('click', this.handleIncrement) and its
\* like add a listener that is the same function every time, so a button
\* has it once; addEventListener('keydown', this.handleButtonKeydown.bind(this))
\* adds a new function every time.
bindEvents(a) == [a EXCEPT !.click = TRUE, !.keydown = @ + 1]

\* cleanup(), as far as the fields of the app and the buttons go: the click
\* listeners are removed, the keydown listeners of the buttons are not.
cleanupApp(a) == [a EXCEPT !.click = FALSE, !.isInitialized = FALSE]

\* The body of init() over a medium: initializeCounter(), bindEvents(),
\* isInitialized = true.
initOver(med, a) ==
    LET c == Constructed(DefaultReset, AppOptions, isSupported, mediumMode, now, med)
    IN  /\ options' = AppOptions
        /\ value' = c.value
        /\ lastUpdated' = c.lastUpdated
        /\ history' = c.history
        /\ medium' = c.medium
        /\ listeners' = [NoListeners EXCEPT !["change"] = <<onCounterChange>>]
        /\ stack' = <<>>
        /\ ret' = Undefined
        /\ warned' = FALSE
        /\ app' = [bindEvents(a) EXCEPT !.isInitialized = TRUE]
        /\ UNCHANGED <<isSupported, mediumMode, now, reentrant, held, kept>>

\* init()
init ==
    /\ stack = <<>>
    /\ app.key = NoKey
    /\ app.keydown < MaxBindings
    /\ IF app.isInitialized
       THEN UNCHANGED vars
       ELSE initOver(medium, app)

\* cleanup()
cleanup ==
    /\ stack = <<>>
    /\ app.key = NoKey
    /\ app' = cleanupApp(app)
    /\ listeners' = [listeners EXCEPT !["change"] = Without(@, onCounterChange)]
    /\ ret' = Undefined
    /\ UNCHANGED <<options, value, lastUpdated, history, storageVars, stack,
                   mediumMode, now, reentrant, held, kept, warned>>

\* resetApp(): cleanup(), this.counter.destroy(), init().
resetApp ==
    /\ stack = <<>>
    /\ app.key = NoKey
    /\ app.keydown < MaxBindings
    /\ initOver(remove(isSupported, mediumMode,
                       remove(isSupported, mediumMode, medium, COUNTER_VALUE).medium,
                       COUNTER_HISTORY).medium,
                cleanupApp(app))

\* Enter or Space goes down on the focused button b: the keydown listeners
\* of the button are to be called, in the order they were added.
KeyPress(b, k) ==
    /\ stack = <<>>
    /\ app.key = NoKey
    /\ app' = [app EXCEPT !.key = [target |-> b, pressed |-> k,
                                   pending |-> app.keydown, clicking |-> FALSE,
                                   calls |-> 0]]
    /\ ret' = Undefined
    /\ UNCHANGED <<counterVars, storageVars, stack, mediumMode, now, reentrant, held,
                   kept, warned>>

\* handleButtonKeydown(event) of the next keydown listener:
\* event.preventDefault(), which keeps the browser from activating the
\* button itself, and event.target.click(), which calls the click listener
\* if the button has one.
handleButtonKeydown ==
    /\ stack = <<>>
    /\ app.key.pending > 0
    /\ ~app.key.clicking
    /\ app.key.pressed \in ActivationKeys
    /\ app' = [app EXCEPT !.key.pending = @ - 1, !.key.clicking = app.click]
    /\ ret' = Undefined
    /\ UNCHANGED <<counterVars, storageVars, stack, mediumMode, now, reentrant, held,
                   kept, warned>>

\* handleIncrement(), handleDecrement(), handleReset(): the click listeners.
handleIncrement ==
    /\ app.key.clicking
    /\ app.key.target = "increment"
    /\ ret = Undefined
    /\ increment(Undefined)

handleDecrement ==
    /\ app.key.clicking
    /\ app.key.target = "decrement"
    /\ ret = Undefined
    /\ decrement(Undefined)

handleReset ==
    /\ app.key.clicking
    /\ app.key.target = "reset"
    /\ ret = Undefined
    /\ reset(Undefined)

\* The click listener returns, and click() with it.
ClickReturn ==
    /\ stack = <<>>
    /\ app.key.clicking
    /\ ret.t = "number"
    /\ app' = [app EXCEPT !.key.clicking = FALSE, !.key.calls = @ + 1]
    /\ ret' = Undefined
    /\ UNCHANGED <<counterVars, storageVars, stack, mediumMode, now, reentrant, held,
                   kept, warned>>

\* Every keydown listener of the button has been called.
KeyHandled ==
    /\ app.key.target # "none"
    /\ app.key.pending = 0
    /\ ~app.key.clicking

\* The event is over.
KeyDone ==
    /\ KeyHandled
    /\ app' = [app EXCEPT !.key = NoKey]
    /\ UNCHANGED <<counterVars, storageVars, stack, mediumMode, now, reentrant, held,
                   kept, ret, warned>>

\* The page has been loaded: new CounterApp() and init() over a working,
\* empty medium.
InitApp ==
    LET med == [k \in MediumKeys |-> Absent]
        c == Constructed(DefaultReset, AppOptions, TRUE, "ok", 0, med)
    IN  /\ mediumMode = "ok"
        /\ isSupported = checkLocalStorageSupport("ok")
        /\ now = 0
        /\ options = AppOptions
        /\ value = c.value
        /\ lastUpdated = c.lastUpdated
        /\ history = c.history
        /\ medium = c.medium
        /\ listeners = [NoListeners EXCEPT !["change"] = <<onCounterChange>>]
        /\ stack = <<>>
        /\ ret = Undefined
        /\ warned = FALSE
        /\ reentrant = FALSE
        /\ held = NotHeld
        /\ kept = <<>>
        /\ app = [bindEvents(NoApp) EXCEPT !.isInitialized = TRUE]

NextApp ==
    \/ Tick
    \/ init
    \/ cleanup
    \/ resetApp
    \/ \E b \in Buttons, k \in ActivationKeys : KeyPress(b, k)
    \/ handleButtonKeydown
    \/ handleIncrement
    \/ handleDecrement
    \/ handleReset
    \/ ClickReturn
    \/ KeyDone
    \/ InvokeNext
    \/ CallbackReturn
    \/ EmitDone

SpecApp == InitApp /\ [][NextApp]_vars

\* C29: once Enter or Space pressed on a focused button of the initialised
\* application has been handled, the click listener of the button has been
\* called exactly once, however many times the application has been
\* cleaned up, initialised and reset.
C29_KeyActivatesOnce ==
    app.isInitialized /\ KeyHandled => app.key.calls = 1

\* The key has been handled on the application as the page load left it.
C29_ActivatedOnceAfterLoad ==
    /\ app.isInitialized
    /\ app.keydown = 1
    /\ KeyHandled
    /\ app.key.calls = 1

-----------------------------------------------------------------------------
(* The value item and the value *)

\* The value item holds a number, and with validateBounds on one within
\* the bounds.
RecordInRange ==
    /\ HoldsNumber(ValueItem)
    /\ options.validateBounds =>
           /\ options.minValue <= ValueItem.payload.value.n
           /\ ValueItem.payload.value.n <= options.maxValue

\* C31: with persistValue on a store that works, the value item, when it
\* holds a number that is within the bounds or validateBounds is off,
\* holds getValue().
C31_RecordHoldsValue ==
    options.persistValue /\ RecordInRange => ValueItem.payload.value = Num(getValue)

\* A callback is running for a change made later than the construction, and
\* the value item holds the new value.
C31_RecordOfLastMutation ==
    /\ options.persistValue
    /\ options.validateBounds
    /\ stack # <<>>
    /\ Top.cur # NoCallback
    /\ lastUpdated > 0
    /\ RecordInRange
    /\ ValueItem.payload.value = Num(getValue)
    /\ ValueItem.payload.lastUpdated = Num(lastUpdated)

\* C31 as stated: the value item, when it holds a number, holds getValue().
C31_RecordAlwaysHoldsValue ==
    options.persistValue /\ HoldsNumber(ValueItem) =>
        ValueItem.payload.value = Num(getValue)

-----------------------------------------------------------------------------
(* The history item and the log *)

\* The options tried: a persisted history of every length up to the bound,
\* on a page whose listeners call the counter.
MirrorOptions == {Opts(0, 2, TRUE, TRUE, TRUE, cap) : cap \in 1..MaxHistory}

InitMirror == Loaded({"ok"}, {Absent}, MirrorOptions, TRUE)

NextMirror ==
    \/ increment(Undefined)
    \/ decrement(Undefined)
    \/ reset(Undefined)
    \/ \E a \in ReentrantArgs : setValue(a)
    \/ on("change", "f")
    \/ clearHistory
    \/ destroy
    \/ NewCounter(DefaultReset)
    \/ InvokeNext
    \/ CallbackReturn
    \/ EmitDone

SpecMirror == InitMirror /\ [][NextMirror]_vars

\* The history item is the log as save() writes it.
MirrorsLog ==
    /\ HistoryItem.t = "wrapped"
    /\ HistoryItem.payload = Stringify(ArrayPayload(history.log))

\* C32: with a history and persistValue on a store that works, the history
\* item, when there is one, holds the entries of the log in their order,
\* capped as the log is; clearHistory() and destroy() leave no history
\* item, and none appears before the next accepted mutation (or the
\* construction of a counter).
C32_HistoryRecordMirrorsLog ==
    /\ [](HistoryItem # Absent => MirrorsLog)
    /\ [][clearHistory \/ destroy => HistoryItem' = Absent]_vars
    /\ [][HistoryItem = Absent /\ HistoryItem' # Absent =>
             Len(stack') > Len(stack) \/ NewCounter(DefaultReset)]_vars

\* A callback has changed the counter during a notification: the log is
\* full, two entries long with its 'init' entry evicted, and the history
\* item holds these two entries.
C32_RecordAfterEvictionInCallback ==
    /\ Len(stack) = 2
    /\ options.maxHistoryLength = 2
    /\ Len(history.log) = 2
    /\ history.log[1].action # "init"
    /\ Len(HistoryItem.payload.entries) = 2
    /\ MirrorsLog

-----------------------------------------------------------------------------
(* The events each subscriber receives, one after the other *)

\* What a callback has written down of an event it was called with, and
\* that it has not been called yet.
NothingReceived == [seen |-> FALSE, value |-> 0, oldValue |-> 0]
Received(data) == [seen |-> TRUE, value |-> data.value, oldValue |-> data.oldValue]

\* The last event each callback got, and the one before it.
LastReceived(c) == IF held.t = "received" THEN held.last[c] ELSE NothingReceived
PrevReceived(c) == IF held.t = "received" THEN held.prev[c] ELSE NothingReceived

\* emit(): callback(data) for the next callback of the innermost
\* notification, which writes the event down as its first statement.
DeliverNext ==
    /\ stack # <<>>
    /\ Top.cur = NoCallback
    /\ Top.rest # <<>>
    /\ LET c == Head(Top.rest)
       IN  /\ stack' = [stack EXCEPT ![Len(stack)] =
                            [@ EXCEPT !.cur = c, !.rest = Tail(@), !.acted = FALSE,
                                      !.done = Append(@, c)]]
           /\ held' = [t |-> "received", entries |-> <<>>,
                       last |-> [x \in Callbacks |->
                                    IF x = c THEN Received(Top.data)
                                    ELSE LastReceived(x)],
                       prev |-> [x \in Callbacks |->
                                    IF x = c THEN LastReceived(x)
                                    ELSE PrevReceived(x)]]
    /\ UNCHANGED <<counterVars, storageVars, mediumMode, now, reentrant, app, kept,
                   ret, warned>>

\* Two subscribers of 'change' on a page whose listeners call the counter.
InitDelivery == Loaded({"ok"}, {Absent}, SubscribeOptions, TRUE)

NextDelivery ==
    \/ \E a \in ReentrantArgs : setValue(a)
    \/ \E c \in Callbacks : on("change", c)
    \/ DeliverNext
    \/ CallbackReturn
    \/ EmitDone

SpecDelivery == InitDelivery /\ [][NextDelivery]_vars

\* C33: for each subscriber, the oldValue of the event it received last is
\* the value of the event it received just before: the events reach it in
\* the order in which the mutations were accepted, also when a callback
\* calls a mutator.
C33_EventsInOrder ==
    \A c \in Callbacks :
        PrevReceived(c).seen => LastReceived(c).oldValue = PrevReceived(c).value

(***************************************************************************)
(* A closure called a second time                                          *)
(***************************************************************************)

\* C34: an unsubscribe closure removes only the registration made by the
\* on() call that returned it: once the closure has been called, calling
\* it again leaves every subscriber set as it is, also when the same
\* callback has been subscribed again in between.
C34_ClosureRemovesOwnRegistration ==
    [][\A i \in 1..MaxKept :
           i <= Len(kept) /\ kept[i].called /\ CallKept(i) =>
               listeners' = listeners]_vars

====
